---- MODULE Spec2Model ----
(***************************************************************************)
(* nvmcp: tag store (unified-config.js), process supervisor                *)
(* (processes.js, class ProcessManager) and the tag commands (tags.js).    *)
(*                                                                         *)
(* Strings of the program are sequences of one-character strings, so that  *)
(* the regular expressions of the validators, the prefix tests of          *)
(* parseSource and the concatenation that builds a process id are computed *)
(* as the code computes them.                                              *)
(***************************************************************************)
EXTENDS Integers, Sequences, FiniteSets, TLC

(***************************************************************************)
(* Bounds of the model.                                                    *)
(***************************************************************************)
MaxNow == 2        \* Date.now() takes the values 1..MaxNow
MaxPid == 2        \* at most MaxPid OS processes are ever spawned

Invs == {1, 2}     \* CLI invocations (OS processes running the tool) alive at once

(***************************************************************************)
(* Characters and string helpers.                                          *)
(***************************************************************************)
LowerSeq == <<"a","b","c","d","e","f","g","h","i","j","k","l","m",
              "n","o","p","q","r","s","t","u","v","w","x","y","z">>
UpperSeq == <<"A","B","C","D","E","F","G","H","I","J","K","L","M",
              "N","O","P","Q","R","S","T","U","V","W","X","Y","Z">>
DigitSeq == <<"0","1","2","3","4","5","6","7","8","9">>

Range(s) == {s[i] : i \in DOMAIN s}

LowerLetters == Range(LowerSeq)
UpperLetters == Range(UpperSeq)
DigitChars == Range(DigitSeq)
AlnumChars == LowerLetters \cup UpperLetters \cup DigitChars
\* the character class [a-zA-Z0-9-_]
WordDashChars == AlnumChars \cup {"-", "_"}

StartsWith(s, p) == Len(s) >= Len(p) /\ SubSeq(s, 1, Len(p)) = p
EndsWith(s, p) == Len(s) >= Len(p) /\ SubSeq(s, Len(s) - Len(p) + 1, Len(s)) = p
Contains(s, p) == \E i \in 1..(Len(s) - Len(p) + 1) : SubSeq(s, i, i + Len(p) - 1) = p
Slice(s, n) == SubSeq(s, n + 1, Len(s))     \* String.prototype.slice(n)

LowerChar(c) ==
    IF c \in UpperLetters
    THEN LowerSeq[CHOOSE i \in DOMAIN UpperSeq : UpperSeq[i] = c]
    ELSE c
toLowerCase(s) == [i \in DOMAIN s |-> LowerChar(s[i])]

\* s.split('/').pop(): the part after the last '/', the whole string without one
LastSegment(s) ==
    IF \E i \in DOMAIN s : s[i] = "/"
    THEN LET k == CHOOSE i \in DOMAIN s : s[i] = "/" /\ \A j \in (i+1)..Len(s) : s[j] # "/"
         IN  SubSeq(s, k + 1, Len(s))
    ELSE s

\* decimal digits of a natural number, as String(n) gives them
RECURSIVE NumToStr(_)
NumToStr(n) ==
    IF n < 10 THEN <<DigitSeq[n + 1]>>
    ELSE NumToStr(n \div 10) \o <<DigitSeq[(n % 10) + 1]>>

(***************************************************************************)
(* Error classes a command or an operation can end with.                   *)
(***************************************************************************)
NoError == "none"
ValidationError == "ValidationError"
TagError == "TagError"
ProcessError == "ProcessError"
ConfigError == "ConfigError"
TypeError == "TypeError"

(***************************************************************************)
(* constants/index.js VALIDATION and utils/validation.js Validators.       *)
(* Each validator gives the error it throws, NoError when it returns true. *)
(***************************************************************************)
TAG_NAME_MIN_LENGTH == 1
TAG_NAME_MAX_LENGTH == 50
RESERVED_NAMES == { <<"h","e","l","p">>, <<"v","e","r","s","i","o","n">>,
                    <<"l","i","s","t">>, <<"l","s">>, <<"c","r","e","a","t","e">>,
                    <<"d","e","l","e","t","e">>, <<"u","s","e">>,
                    <<"c","o","n","f","i","g">>, <<"i","n","i","t">> }

\* /^[a-zA-Z0-9]([a-zA-Z0-9-_]*[a-zA-Z0-9])?$/
TagNamePattern(s) ==
    /\ Len(s) >= 1
    /\ s[1] \in AlnumChars
    /\ s[Len(s)] \in AlnumChars
    /\ \A i \in DOMAIN s : s[i] \in WordDashChars

\* /^[a-zA-Z0-9-_]+-\d+$/
ProcessIdPattern(s) ==
    \E k \in DOMAIN s :
        /\ s[k] = "-"
        /\ k > 1 /\ k < Len(s)
        /\ \A i \in 1..(k-1) : s[i] \in WordDashChars
        /\ \A i \in (k+1)..Len(s) : s[i] \in DigitChars

ValidatorsRequired(value) == IF value = <<>> THEN ValidationError ELSE NoError

ValidatorsString(value, minLength, maxLength) ==
    IF value = <<>> THEN ValidationError
    ELSE IF Len(value) < minLength THEN ValidationError
    ELSE IF Len(value) > maxLength THEN ValidationError
    ELSE NoError

ValidatorsTagName(value) ==
    IF ValidatorsRequired(value) # NoError THEN ValidationError
    ELSE IF ValidatorsString(value, TAG_NAME_MIN_LENGTH, TAG_NAME_MAX_LENGTH) # NoError
         THEN ValidationError
    ELSE IF ~TagNamePattern(value) THEN ValidationError
    ELSE IF toLowerCase(value) \in RESERVED_NAMES THEN ValidationError
    ELSE NoError

ValidatorsProcessId(value) ==
    IF ValidatorsRequired(value) # NoError THEN ValidationError
    ELSE IF ~ProcessIdPattern(value) THEN ValidationError
    ELSE NoError

\* tags.js line 22 takes validateArgs from utils/errors, whose module.exports
\* has no such member: the name is bound to undefined in tags.js.
validateArgsBound == FALSE

\* the call validateArgs(args, 1, message) as tags.js makes it
validateArgs(nargs, minLength) ==
    IF ~validateArgsBound THEN TypeError
    ELSE IF nargs < minLength THEN ValidationError
    ELSE NoError

(***************************************************************************)
(* unified-config.js parseSource and getCacheDir.                          *)
(***************************************************************************)
PrefNpm == <<"n","p","m",":">>
PrefGithub == <<"g","i","t","h","u","b",":">>
PrefHttps == <<"h","t","t","p","s",":","/","/">>
PrefHttp == <<"h","t","t","p",":","/","/">>
PrefGit == <<"g","i","t","+">>
ExtGit == <<".","g","i","t">>
Undefined == <<"undefined">>      \* the value undefined, where a string is expected

\* name.replace(/\.git$/, '')
StripGit(s) == IF EndsWith(s, ExtGit) THEN SubSeq(s, 1, Len(s) - 4) ELSE s

\* the parts of s.split('/')
RECURSIVE SplitSlash(_)
SplitSlash(s) ==
    IF \E i \in DOMAIN s : s[i] = "/"
    THEN LET k == CHOOSE i \in DOMAIN s : s[i] = "/" /\ \A j \in 1..(i-1) : s[j] # "/"
         IN  <<SubSeq(s, 1, k - 1)>> \o SplitSlash(SubSeq(s, k + 1, Len(s)))
    ELSE <<s>>

\* new URL(source).pathname.split('/').filter(p => p)
UrlPathParts(source) ==
    LET rest == IF StartsWith(source, PrefHttps) THEN Slice(source, 8) ELSE Slice(source, 7)
        parts == SplitSlash(rest)
    IN  SelectSeq(SubSeq(parts, 2, Len(parts)), LAMBDA p : p # <<>>)

\* path.basename(p, '.git')
Basename(p) ==
    LET b == LastSegment(p)
    IN  IF EndsWith(b, ExtGit) /\ b # ExtGit THEN SubSeq(b, 1, Len(b) - 4) ELSE b

parseSource_GitAsPackage(source) ==
    IF StartsWith(source, PrefNpm)
    THEN [type |-> "npm", target |-> Slice(source, 4), owner |-> Undefined,
          name |-> LastSegment(Slice(source, 4))]
    ELSE IF StartsWith(source, PrefGithub)
    THEN LET parts == SplitSlash(Slice(source, 7))
         IN  [type |-> "github", target |-> Slice(source, 7), owner |-> parts[1],
              name |-> IF Len(parts) >= 2 THEN parts[2] ELSE Undefined]
    ELSE IF StartsWith(source, PrefHttps) \/ StartsWith(source, PrefHttp)
    THEN LET pp == UrlPathParts(source)
         IN  [type |-> "remote", target |-> source, owner |-> Undefined,
              name |-> IF Len(pp) >= 1 THEN StripGit(pp[Len(pp)])
                       ELSE <<"r","e","m","o","t","e","-","m","c","p">>]
    ELSE IF FALSE
    THEN [type |-> "git", target |-> Slice(source, 4), owner |-> Undefined,
          name |-> Basename(Slice(source, 4))]
    ELSE [type |-> "npm", target |-> source, owner |-> Undefined, name |-> LastSegment(source)]
parseSource(source) ==
    IF StartsWith(source, PrefNpm)
    THEN [type |-> "npm", target |-> Slice(source, 4), owner |-> Undefined,
          name |-> LastSegment(Slice(source, 4))]
    ELSE IF StartsWith(source, PrefGithub)
    THEN LET parts == SplitSlash(Slice(source, 7))
         IN  [type |-> "github", target |-> Slice(source, 7), owner |-> parts[1],
              name |-> IF Len(parts) >= 2 THEN parts[2] ELSE Undefined]
    ELSE IF StartsWith(source, PrefHttps) \/ StartsWith(source, PrefHttp)
    THEN LET pp == UrlPathParts(source)
         IN  [type |-> "remote", target |-> source, owner |-> Undefined,
              name |-> IF Len(pp) >= 1 THEN StripGit(pp[Len(pp)])
                       ELSE <<"r","e","m","o","t","e","-","m","c","p">>]
    ELSE IF StartsWith(source, PrefGit)
    THEN [type |-> "git", target |-> Slice(source, 4), owner |-> Undefined,
          name |-> Basename(Slice(source, 4))]
    ELSE [type |-> "npm", target |-> source, owner |-> Undefined, name |-> LastSegment(source)]

\* the cache directory of a source is keyed by the derived name alone
getCacheDir(sourceName) == sourceName

(***************************************************************************)
(* Finite maps (JavaScript objects and Maps keyed by strings).             *)
(***************************************************************************)
EmptyMap == [x \in {} |-> 0]
Put(f, k, v) == [x \in (DOMAIN f) \cup {k} |-> IF x = k THEN v ELSE f[x]]
Remove(f, k) == [x \in (DOMAIN f) \ {k} |-> f[x]]
Restrict(f, S) == [x \in (DOMAIN f) \cap S |-> f[x]]

(***************************************************************************)
(* Inputs of the supervisor operations.                                    *)
(***************************************************************************)
NameFs == <<"f","s">>
NameRepo == <<"r">>
SrcNpmFs == <<"n","p","m",":","f","s">>
SrcGithubOR == <<"g","i","t","h","u","b",":","o","/","r">>
SrcGithubPR == <<"g","i","t","h","u","b",":","p","/","r">>
SupNames == {NameFs}
SupSources == {SrcNpmFs}

\* what a working copy can contain once `git clone` has succeeded
EntryFiles == <<"package.json", "index.js", "main.py", "server.py", "mcp.py">>
RepoContents == { [ok |-> TRUE, files |-> {"index.js"}, pkg |-> "none", bin |-> <<>>, origin |-> <<>>],
                  [ok |-> TRUE, files |-> {"package.json", "index.js"}, pkg |-> "main", bin |-> <<>>, origin |-> <<>>],
                  [ok |-> TRUE, files |-> {"package.json", "index.js"}, pkg |-> "none", bin |-> <<>>, origin |-> <<>>],
                  [ok |-> TRUE, files |-> {}, pkg |-> "none", bin |-> <<>>, origin |-> <<>>] }
CloneFailed == [ok |-> FALSE, files |-> {}, pkg |-> "none", bin |-> <<>>, origin |-> <<>>]
CloneKilled == [ok |-> FALSE, files |-> {".git"}, pkg |-> "none", bin |-> <<>>, origin |-> <<>>]
CloneOutcomes == {CloneFailed} \cup RepoContents

(***************************************************************************)
(* State.                                                                  *)
(***************************************************************************)
VARIABLES
    now,          \* Date.now()
    nextH,        \* next child-process handle (and pid) to hand out
    osAlive,      \* pids of the supervised processes alive in the OS
    child,        \* ChildProcess objects in memory:
                  \* handle -> [inv, id, pid, env, killed, status, done]
    procs,        \* this.processes of each invocation: id -> handle
    timers,       \* pending force-kill timers of each invocation (handles)
    ctx,          \* the startMCP call in progress of each invocation
    registry,     \* running.json: id -> [name, source, pid, status]
    cache,        \* cache directories: derived name -> content of the working copy
    tagFiles,     \* configs/<name>.json: tag name -> tag document as written
    activeTag,    \* active-tag.json: the tag it names, NoTag when the file is absent,
                  \* MalformedPointer when its text is not JSON
    keyFile,      \* .key: the master secret, 0 when the file is absent
    toolFiles,    \* the MCP configuration files of Claude Desktop, Cursor and VS Code:
                  \* tool -> [keys, mcpServers], no entry when the file is absent
    batch,        \* startTagMCPs in progress: names still to start and the results so far
    last          \* what the step that led to this state returned to its caller

vars == <<now, nextH, osAlive, child, procs, timers, ctx, registry, cache,
          tagFiles, activeTag, keyFile, toolFiles, batch, last>>

supVars == <<nextH, osAlive, child, procs, timers, ctx, registry, cache>>
storeVars == <<tagFiles, activeTag, keyFile, toolFiles>>

NoTag == <<"(", "n", "o", "n", "e", ")">>
MalformedPointer == <<"{">>
\* getActiveTag: null (NoTag) for an absent file and, from its catch, for a
\* file that cannot be read or parsed
getActiveTag(pointer) == IF pointer = MalformedPointer THEN NoTag ELSE pointer
NoId == <<>>
IdleCtx == [stage |-> "idle", id |-> NoId, name |-> <<>>, source |-> <<>>, env |-> EmptyMap, doc |-> EmptyMap,
            h |-> 0, key |-> 0]
NoBatch == [inv |-> 0, tag |-> <<>>, names |-> <<>>, todo |-> <<>>, mcps |-> EmptyMap,
            env |-> EmptyMap, environment |-> EmptyMap, results |-> <<>>]
\* op: the operation; id, err: the id it was about and the error it threw;
\* listed: the ids list() returned; count: the number stopAll() returned;
\* pid: the process a timer was armed for; term, kill: the pids of the live
\* processes the step delivered SIGTERM and SIGKILL to; mcps: the mcps map a
\* create was given or a get returned; results: the summary of startTagMCPs;
\* arg, ret: the arguments and the return value of a call of a library function;
\* lost: the names a save found in the mcps object of the file and did not write
Outcome(op, id, err) ==
    [op |-> op, id |-> id, err |-> err, listed |-> {}, count |-> 0, pid |-> 0,
     term |-> {}, kill |-> {}, mcps |-> EmptyMap, results |-> <<>>,
     arg |-> <<>>, ret |-> <<>>, lost |-> {}]
\* a step that returns nothing to a caller
Quiet == Outcome("none", NoId, NoError)

Init ==
    /\ now = 1
    /\ nextH = 1
    /\ osAlive = {}
    /\ child = EmptyMap
    /\ procs = [i \in Invs |-> EmptyMap]
    /\ timers = [i \in Invs |-> {}]
    /\ ctx = [i \in Invs |-> IdleCtx]
    /\ registry = EmptyMap
    /\ cache = EmptyMap
    /\ tagFiles = EmptyMap
    /\ activeTag = NoTag
    /\ keyFile = 0
    /\ toolFiles = EmptyMap
    /\ batch = NoBatch
    /\ last = Quiet

(***************************************************************************)
(* processes.js: resolveCommand and the resolvers it dispatches to.        *)
(* `outcome` is what `git clone` does when the resolver has to clone; the  *)
(* working copy it leaves is a copy of the repository cloned (origin).     *)
(***************************************************************************)
\* content.bin: the members of pkg.bin, <<key, file>>, in the order of the
\* manifest (a string pkg.bin is one member); Object.values gives the values
\* in that order
handlePackageJson(content, cacheDir) ==
    IF content.pkg = "bin"
    THEN [err |-> NoError, cmd |-> "node", arg |-> content.bin[1][2], cwd |-> cacheDir]
    ELSE IF content.pkg = "main"
    THEN [err |-> NoError, cmd |-> "node", arg |-> "main", cwd |-> cacheDir]
    ELSE [err |-> ProcessError, cmd |-> "", arg |-> "", cwd |-> cacheDir]

\* the first entry point of the list that exists decides
RECURSIVE ScanEntryPoints(_, _, _)
ScanEntryPoints(content, cacheDir, i) ==
    IF i > Len(EntryFiles)
    THEN [err |-> ProcessError, cmd |-> "", arg |-> "", cwd |-> cacheDir]
    ELSE IF EntryFiles[i] \in content.files
    THEN IF EntryFiles[i] = "package.json"
         THEN handlePackageJson(content, cacheDir)
         ELSE [err |-> NoError,
               cmd |-> IF EntryFiles[i] = "index.js" THEN "node" ELSE "python",
               arg |-> EntryFiles[i], cwd |-> cacheDir]
    ELSE ScanEntryPoints(content, cacheDir, i + 1)

\* the cache after cloneRepository: the code removes nothing when the clone
\* fails. git removes what it made when it fails by itself; when it is killed
\* it leaves the directory with what it had written (outcome.files)
cloneRepository(c, cacheDir, outcome) ==
    IF ~outcome.ok /\ outcome.files = {} THEN c ELSE Put(c, cacheDir, outcome)

resolveGithubCommand(c, name, outcome) ==
    LET cacheDir == getCacheDir(name)
        cloned == cacheDir \notin DOMAIN c
        c2 == IF cloned THEN cloneRepository(c, cacheDir, outcome) ELSE c
    IN  IF cloned /\ ~outcome.ok
        THEN [err |-> ProcessError, cmd |-> "", arg |-> "", cwd |-> <<>>, cache |-> c2]
        ELSE LET r == ScanEntryPoints(c2[cacheDir], cacheDir, 1)
             IN  [err |-> r.err, cmd |-> r.cmd, arg |-> r.arg, cwd |-> r.cwd, cache |-> c2]

resolveCommand(c, source, outcome) ==
    LET info == parseSource(source)
    IN  IF info.type = "npm"
        THEN [err |-> NoError, cmd |-> "npx", arg |-> "package", cwd |-> <<>>, cache |-> c]
        ELSE IF info.type = "remote"
        THEN [err |-> NoError, cmd |-> "npx", arg |-> "server-http", cwd |-> <<>>, cache |-> c]
        ELSE resolveGithubCommand(c, info.name, [outcome EXCEPT !.origin = info.target])

(***************************************************************************)
(* unified-config.js: the running-process registry.                        *)
(***************************************************************************)
\* process.kill(pid, 0) succeeds
PidAlive(pid) == pid \in osAlive

\* a registry read that keeps the records of dead processes
getRunningProcesses_NoPrune(reg) == reg

\* getRunningProcesses: the records whose pid answers the probe; the file is
\* rewritten with them when some record was dropped
getRunningProcesses(reg) == Restrict(reg, {id \in DOMAIN reg : PidAlive(reg[id].pid)})

\* a registry write that loses the new record
addRunningProcess_Lost(reg, id, info) == getRunningProcesses(reg)

addRunningProcess(reg, id, info) ==
    Put(getRunningProcesses(reg), id,
        [name |-> info.name, source |-> info.source, pid |-> info.pid,
         status |-> info.status])

removeRunningProcess(reg, id) == Remove(getRunningProcesses(reg), id)

(***************************************************************************)
(* processes.js: class ProcessManager.                                     *)
(***************************************************************************)
MakeId(name, t) == name \o <<"-">> \o NumToStr(t)

\* the JavaScript of an invocation runs one callback at a time: no event
\* handler, timer or command of invocation i runs inside the synchronous
\* block of startMCP that spawns and records the child
Interruptible(i) == ctx[i].stage \notin {"persist", "write"}

\* child.kill(signal): true, and child.killed set, when the signal was handed
\* to the OS for the pid of the handle (a process that has exited but whose
\* exit event is still to come accepts it as well); false without a handle
ChildAfterKill(ch, hs) ==
    [h \in DOMAIN ch |-> IF h \in hs /\ ch[h].pid # 0 THEN [ch[h] EXCEPT !.killed = TRUE] ELSE ch[h]]
\* the live processes a signal sent to the children hs reaches
Delivered(hs) == {child[h].pid : h \in {x \in hs : child[x].pid \in osAlive}}

\* a ChildProcess object stays in memory while this.processes, a pending timer
\* or its own event handlers refer to it
Referenced(ch, pr, tm, h) ==
    \/ ~ch[h].done
    \/ h \in tm[ch[h].inv]
    \/ \E id \in DOMAIN pr[ch[h].inv] : pr[ch[h].inv][id] = h
Collect(ch, pr, tm) == Restrict(ch, {h \in DOMAIN ch : Referenced(ch, pr, tm, h)})

\* the clock readings a call can get: time does not run backwards
Clock == now..MaxNow

\* process.env of the invocations
EnvApiKey == <<"A","P","I","_","K","E","Y">>
EnvPath == <<"P","A","T","H">>
AmbientEnv == (EnvApiKey :> <<"a","m","b","i","e","n","t">>) @@ (EnvPath :> <<"/","b","i","n">>)

\* { ...process.env, ...env }
MergeEnv(ambient, env) ==
    [k \in (DOMAIN ambient) \cup (DOMAIN env) |-> IF k \in DOMAIN env THEN env[k] ELSE ambient[k]]

\* startMCP, up to the await: the id is made from the name and Date.now(), here t
BeginStart(i, name, source, env, t) ==
    /\ ctx[i].stage = "idle"
    /\ now' = t
    /\ ctx' = [ctx EXCEPT ![i] = [stage |-> "resolve", id |-> MakeId(name, t),
                                  name |-> name, source |-> source, env |-> env,
                                  doc |-> EmptyMap, h |-> 0, key |-> ctx[i].key]]
    /\ last' = Quiet

StartBegin(i, name, source) ==
    /\ batch.inv # i
    /\ \E t \in Clock : BeginStart(i, name, source, EmptyMap, t)
    /\ UNCHANGED <<nextH, osAlive, child, procs, timers, registry, cache,
                   tagFiles, activeTag, keyFile, toolFiles, batch>>

\* startMCP, lines 40-49: resolveCommand, then spawn. A spawn that fails gives a
\* child without pid whose 'error' event follows.
SpawnChild(i, outcome, spawned) ==
    LET c == ctx[i]
        r == resolveCommand(cache, c.source, outcome)
    IN  /\ c.stage = "resolve"
        /\ cache' = r.cache
        /\ IF r.err # NoError
           THEN /\ ctx' = [ctx EXCEPT ![i] = IdleCtx]
                /\ last' = Outcome("start", c.id, r.err)
                /\ UNCHANGED <<nextH, osAlive, child>>
           ELSE /\ nextH <= MaxPid
                /\ child' = Put(child, nextH,
                                [inv |-> i, id |-> c.id, pid |-> IF spawned THEN nextH ELSE 0,
                                 env |-> MergeEnv(AmbientEnv, c.env), killed |-> FALSE, status |-> "starting", done |-> FALSE])
                /\ osAlive' = IF spawned THEN osAlive \cup {nextH} ELSE osAlive
                /\ nextH' = nextH + 1
                /\ ctx' = [ctx EXCEPT ![i] = [c EXCEPT !.stage = "persist", !.h = nextH]]
                /\ last' = Quiet

StartSpawn(i) ==
    /\ batch.inv # i
    /\ \E outcome \in CloneOutcomes, spawned \in BOOLEAN : SpawnChild(i, outcome, spawned)
    /\ UNCHANGED <<now, procs, timers, registry, tagFiles, activeTag, keyFile, toolFiles, batch>>

\* startMCP, lines 51-65: the entry of this.processes, the record of the
\* registry with status `starting`, the handlers, and the id is returned.
\* Node emits 'spawn', or 'error' for a spawn that failed, from process.nextTick:
\* the handler runs as soon as this synchronous block ends, before any other
\* callback of the invocation, so it is part of this step:
\*   child.on('spawn'): the status of the entry in memory becomes `running`
\*   child.on('error'): status `error`, then cleanup(processId)
PersistRecord(i) ==
    LET c == ctx[i]
        info == [name |-> c.name, source |-> c.source, pid |-> child[c.h].pid,
                 status |-> "starting"]
        recorded == addRunningProcess(registry, c.id, info)
        spawned == child[c.h].pid # 0
        procs2 == IF spawned THEN [procs EXCEPT ![i] = Put(procs[i], c.id, c.h)]
                  ELSE [procs EXCEPT ![i] = Remove(procs[i], c.id)]
        child2 == IF spawned THEN [child EXCEPT ![c.h].status = "running"]
                  ELSE [child EXCEPT ![c.h].status = "error", ![c.h].done = TRUE]
    IN  /\ c.stage = "persist"
        /\ procs' = procs2
        /\ registry' = IF spawned THEN recorded ELSE Remove(recorded, c.id)
        /\ child' = Collect(child2, procs2, timers)
        /\ ctx' = [ctx EXCEPT ![i] = IdleCtx]
        /\ last' = Outcome("start", c.id, NoError)

StartPersist(i) ==
    /\ batch.inv # i
    /\ PersistRecord(i)
    /\ UNCHANGED <<now, nextH, osAlive, timers, cache, tagFiles, activeTag, keyFile, toolFiles, batch>>

\* cleanup(processId)
CleanupProcs(i, id) == [procs EXCEPT ![i] = Remove(procs[i], id)]

\* what the 'exit' event of a child reports: an exit code, or the signal that
\* ended a process a signal was sent to
ExitReasons(h) == {"code 0", "code 1"} \cup (IF child[h].killed THEN {"SIGTERM"} ELSE {})

\* child.on('exit'): a message that depends on code and signal is printed,
\* then cleanup; arg is what the event reported
ExitEvent(h) ==
    /\ h \in DOMAIN child
    /\ Interruptible(child[h].inv)
    /\ child[h].pid # 0 /\ child[h].pid \notin osAlive
    /\ ~child[h].done
    /\ procs' = CleanupProcs(child[h].inv, child[h].id)
    /\ child' = Collect([child EXCEPT ![h].done = TRUE],
                        CleanupProcs(child[h].inv, child[h].id), timers)
    /\ registry' = removeRunningProcess(registry, child[h].id)
    /\ \E reason \in ExitReasons(h) :
          last' = [Outcome("exited", child[h].id, NoError) EXCEPT !.arg = <<reason>>]
    /\ UNCHANGED <<now, nextH, osAlive, timers, ctx, cache,
                   tagFiles, activeTag, keyFile, toolFiles, batch>>

\* the effect of child.kill('SIGTERM') on each child of hs; the processes of
\* `survivors` ignore the signal (or take their time), the others exit
SigTerm(hs, survivors) ==
    /\ child' = ChildAfterKill(child, hs)
    /\ osAlive' = osAlive \ (Delivered(hs) \ survivors)

\* stopMCP(processId)
StopMCP(i, id, survivors) ==
    /\ Interruptible(i)
    /\ IF id \notin DOMAIN procs[i]
       THEN /\ last' = Outcome("stop", id, ProcessError)
            /\ UNCHANGED <<child, osAlive, timers>>
       ELSE /\ SigTerm({procs[i][id]}, survivors)
            /\ timers' = [timers EXCEPT ![i] = @ \cup {procs[i][id]}]
            /\ last' = [Outcome("stop", id, NoError) EXCEPT
                           !.term = Delivered({procs[i][id]})]
    /\ UNCHANGED <<now, nextH, procs, ctx, registry, cache,
                   tagFiles, activeTag, keyFile, toolFiles, batch>>

\* the callback of the setTimeout armed by stopMCP
TimerFire(i, h) ==
    /\ Interruptible(i)
    /\ h \in timers[i]
    /\ timers' = [timers EXCEPT ![i] = @ \ {h}]
    /\ LET forced == IF ~child[h].killed THEN Delivered({h}) ELSE {}
           child2 == IF ~child[h].killed THEN ChildAfterKill(child, {h}) ELSE child
       IN  /\ child' = Collect(child2, procs, [timers EXCEPT ![i] = @ \ {h}])
           /\ osAlive' = osAlive \ forced
           /\ last' = [Outcome("timer", child[h].id, NoError) EXCEPT
                          !.pid = child[h].pid, !.kill = forced]
    /\ UNCHANGED <<now, nextH, procs, ctx, registry, cache,
                   tagFiles, activeTag, keyFile, toolFiles, batch>>

TrackedHandles(i) == {procs[i][id] : id \in DOMAIN procs[i]}

\* stopAll(): stopMCP for every key of this.processes; their number is returned
StopAllMCPs(i, survivors) ==
    /\ Interruptible(i)
    /\ SigTerm(TrackedHandles(i), survivors)
    /\ timers' = [timers EXCEPT ![i] = @ \cup TrackedHandles(i)]
    /\ last' = [Outcome("stopAll", NoId, NoError) EXCEPT
                   !.count = Cardinality(DOMAIN procs[i]),
                   !.term = Delivered(TrackedHandles(i))]
    /\ UNCHANGED <<now, nextH, procs, ctx, registry, cache,
                   tagFiles, activeTag, keyFile, toolFiles, batch>>

\* listProcesses(): the entries of getRunningProcesses()
List(i) ==
    /\ Interruptible(i)
    /\ registry' = getRunningProcesses(registry)
    /\ last' = [Outcome("list", NoId, NoError) EXCEPT
                   !.listed = DOMAIN getRunningProcesses(registry)]
    /\ UNCHANGED <<now, nextH, osAlive, child, procs, timers, ctx, cache,
                   tagFiles, activeTag, keyFile, toolFiles, batch>>

\* the invocation ends (process.exit, or the SIGINT/SIGTERM handler): the 'exit'
\* handler of setupGracefulShutdown calls stopAll, then memory and timers are gone
InvocationExit(i, survivors) ==
    /\ Interruptible(i)
    /\ batch.inv # i
    /\ DOMAIN procs[i] # {} \/ timers[i] # {} \/ ctx[i].stage # "idle"
    /\ child' = Restrict(child, {h \in DOMAIN child : child[h].inv # i})
    /\ osAlive' = osAlive \ (Delivered(TrackedHandles(i)) \ survivors)
    /\ procs' = [procs EXCEPT ![i] = EmptyMap]
    /\ timers' = [timers EXCEPT ![i] = {}]
    /\ ctx' = [ctx EXCEPT ![i] = IdleCtx]
    /\ last' = [Outcome("exit", NoId, NoError) EXCEPT !.term = Delivered(TrackedHandles(i))]
    /\ UNCHANGED <<now, nextH, registry, cache, tagFiles, activeTag, keyFile, toolFiles, batch>>

\* a supervised process exits by itself
ChildExits(pid) ==
    /\ pid \in osAlive
    /\ osAlive' = osAlive \ {pid}
    /\ last' = Quiet
    /\ UNCHANGED <<now, nextH, child, procs, timers, ctx, registry, cache,
                   tagFiles, activeTag, keyFile, toolFiles, batch>>

StopAll(i) == \E survivors \in SUBSET Delivered(TrackedHandles(i)) : StopAllMCPs(i, survivors)
InvocationEnd(i) ==
    \E survivors \in SUBSET Delivered(TrackedHandles(i)) : InvocationExit(i, survivors)

Handles == 1..MaxPid
\* ids a caller can pass to stop: those of the registry, and one that names nothing
UnknownId == <<"x","-","9">>
StopIds(i) == (DOMAIN registry) \cup (DOMAIN procs[i]) \cup {UnknownId}
\* every id the model can make
AllIds == {MakeId(name, t) : name \in SupNames, t \in 1..MaxNow} \cup {UnknownId}

Stop(i, id) ==
    /\ id \in StopIds(i)
    /\ \E survivors \in SUBSET Delivered(IF id \in DOMAIN procs[i] THEN {procs[i][id]} ELSE {}) :
          StopMCP(i, id, survivors)

\* a process id without the numeric suffix
BadProcessId == <<"f","s">>

\* killCommand: an error of stopMCP is wrapped in a ProcessError
KillCommand(i, processId, survivors) ==
    /\ Interruptible(i)
    /\ IF validateArgs(1, 1) # NoError
       THEN /\ last' = Outcome("kill", processId, validateArgs(1, 1))
            /\ UNCHANGED <<child, osAlive, timers>>
       ELSE IF ValidatorsProcessId(processId) # NoError
       THEN /\ last' = Outcome("kill", processId, ValidationError)
            /\ UNCHANGED <<child, osAlive, timers>>
       ELSE IF processId \notin DOMAIN procs[i]
       THEN /\ last' = Outcome("kill", processId, ProcessError)
            /\ UNCHANGED <<child, osAlive, timers>>
       ELSE /\ SigTerm({procs[i][processId]}, survivors)
            /\ timers' = [timers EXCEPT ![i] = @ \cup {procs[i][processId]}]
            /\ last' = [Outcome("kill", processId, NoError) EXCEPT
                           !.term = Delivered({procs[i][processId]})]
    /\ UNCHANGED <<now, nextH, procs, ctx, registry, cache,
                   tagFiles, activeTag, keyFile, toolFiles, batch>>

Kill(i, processId) ==
    \E survivors \in SUBSET Delivered(IF processId \in DOMAIN procs[i]
                                      THEN {procs[i][processId]} ELSE {}) :
        KillCommand(i, processId, survivors)

\* one resident invocation at a time; its successor finds what it left on disk
Main == 1

Next ==
    \/ \E name \in SupNames, source \in SupSources : StartBegin(Main, name, source)
    \/ StartSpawn(Main)
    \/ StartPersist(Main)
    \/ \E h \in Handles : ExitEvent(h)
    \/ \E id \in AllIds : Stop(Main, id)
    \/ \E h \in Handles : TimerFire(Main, h)
    \/ StopAll(Main)
    \/ List(Main)
    \/ InvocationEnd(Main)
    \/ \E pid \in Handles : ChildExits(pid)
    \/ \E processId \in AllIds \cup {BadProcessId} : Kill(Main, processId)

Spec == Init /\ [][Next]_vars

(***************************************************************************)
(* Two invocations starting MCPs at the same time. addRunningProcess is a  *)
(* readFileSync of running.json followed by a writeFileSync: between the   *)
(* two the other invocation, another OS process, can read and write the    *)
(* file. ctx[i].doc holds what invocation i has read.                      *)
(***************************************************************************)
\* addRunningProcess, line 377: getRunningProcesses()
PersistRead(i) ==
    /\ ctx[i].stage = "persist"
    /\ registry' = getRunningProcesses(registry)
    /\ ctx' = [ctx EXCEPT ![i].stage = "write", ![i].doc = getRunningProcesses(registry)]
    /\ last' = Quiet
    /\ UNCHANGED <<now, nextH, osAlive, child, procs, timers, cache,
                   tagFiles, activeTag, keyFile, toolFiles, batch>>

\* addRunningProcess, lines 378-383: the record is put into the object that
\* was read and the object is written; then the rest of startMCP as in
\* PersistRecord
PersistWrite(i) ==
    LET c == ctx[i]
        written == Put(c.doc, c.id,
                       [name |-> c.name, source |-> c.source, pid |-> child[c.h].pid,
                        status |-> "starting"])
        spawned == child[c.h].pid # 0
        procs2 == IF spawned THEN [procs EXCEPT ![i] = Put(procs[i], c.id, c.h)]
                  ELSE [procs EXCEPT ![i] = Remove(procs[i], c.id)]
        child2 == IF spawned THEN [child EXCEPT ![c.h].status = "running"]
                  ELSE [child EXCEPT ![c.h].status = "error", ![c.h].done = TRUE]
    IN  /\ c.stage = "write"
        /\ procs' = procs2
        /\ registry' = IF spawned THEN written ELSE removeRunningProcess(written, c.id)
        /\ child' = Collect(child2, procs2, timers)
        /\ ctx' = [ctx EXCEPT ![i] = IdleCtx]
        /\ last' = Outcome("start", c.id, NoError)
        /\ UNCHANGED <<now, nextH, osAlive, timers, cache,
                       tagFiles, activeTag, keyFile, toolFiles, batch>>

\* the MCP each of the two invocations starts
RaceName(i) == IF i = Main THEN NameFs ELSE NameRepo

RaceNext ==
    \/ \E i \in Invs : StartBegin(i, RaceName(i), SrcNpmFs)
    \/ \E i \in Invs : StartSpawn(i)
    \/ \E i \in Invs : PersistRead(i)
    \/ \E i \in Invs : PersistWrite(i)
    \/ \E h \in Handles : ExitEvent(h)
    \/ \E i \in Invs : List(i)
    \/ \E pid \in Handles : ChildExits(pid)

RaceSpec == Init /\ [][RaceNext]_vars

(***************************************************************************)
(* crypto.js: the master key and the encryption of sensitive fields.       *)
(***************************************************************************)
FieldEncrypted == <<"e","n","c","r","y","p","t","e","d">>
FieldAuthTag == <<"a","u","t","h","T","a","g">>
FieldSalt == <<"s","a","l","t">>
Placeholder == <<"[","E","N","C","R","Y","P","T","E","D","]">>

isSensitiveKey(key) ==
    LET k == toLowerCase(key)
    IN  \/ EndsWith(k, <<"k","e","y">>)
        \/ EndsWith(k, <<"t","o","k","e","n">>)
        \/ EndsWith(k, <<"s","e","c","r","e","t">>)
        \/ EndsWith(k, <<"p","a","s","s","w","o","r","d">>)
        \/ EndsWith(k, <<"a","u","t","h">>)
        \/ EndsWith(k, <<"c","r","e","d","e","n","t","i","a","l">>)
        \/ StartsWith(k, <<"a","p","i">>)
        \/ Contains(k, <<"s","e","s","s","i","o","n">>)
        \/ Contains(k, <<"c","o","o","k","i","e">>)

\* the characters sanitizeInput removes, and the white space trim() strips
ControlChars == {"\t", "\n", "\r"}
WhiteSpace == {" "} \cup ControlChars
RECURSIVE TrimLeft(_)
TrimLeft(s) == IF s # <<>> /\ Head(s) \in WhiteSpace THEN TrimLeft(Tail(s)) ELSE s
RECURSIVE TrimRight(_)
TrimRight(s) ==
    IF s # <<>> /\ s[Len(s)] \in WhiteSpace THEN TrimRight(SubSeq(s, 1, Len(s) - 1)) ELSE s
sanitizeInput(input) == TrimRight(TrimLeft(SelectSeq(input, LAMBDA c : c \notin ControlChars)))

\* getMasterKey: the key of the key file; a key is generated and written when
\* the file is absent
FreshKey == 1
getMasterKey(kf) == IF kf = 0 THEN FreshKey ELSE kf

\* The cipher is symbolic: Cipher(alg, key, iv, text) is what createCipheriv
\* (alg, key, iv) makes of text, and only a decipher built with the same three
\* gives the text back. deriveKey is PBKDF2, a function of password and salt.
AlgGcm == "aes-256-gcm"
CRYPTO_ALGORITHM == "aes-256-cbc"
NoAlg == ""
NoSecret == 0
GenericError == "Error"
CryptoError == "CryptoError"
Garbage == <<"?">>
deriveKey(password, salt) == <<password, salt>>
Cipher(alg, key, iv, text) == [alg |-> alg, key |-> key, iv |-> iv, text |-> text]

\* a string value that was left as it is
Plain(text) == [enc |-> FALSE, text |-> text]

\* encrypt: salt and iv are the random bytes the call draws; authTag holds
\* the tag of the ciphertext, <<>> when the member is absent
encryptFails(text, password) == text = <<>> \/ password = NoSecret
encrypt(text, password, salt, iv) ==
    [enc |-> TRUE,
     encrypted |-> Cipher(AlgGcm, deriveKey(password, salt), iv, text),
     salt |-> salt, iv |-> iv,
     authTag |-> <<Cipher(AlgGcm, deriveKey(password, salt), iv, text)>>,
     algorithm |-> AlgGcm]

\* decrypt: the set of outcomes [err, text] of a call. The algorithm is the
\* stored one, aes-256-cbc when the member is absent. GCM gives the text
\* when the tag is the one of this ciphertext under this key and iv, and
\* throws otherwise (also when no tag was set). setAuthTag throws on a CBC
\* decipher. CBC under another key or iv ends in a padding error or, when the
\* last block happens to look padded, in a string of garbage.
DecryptDone(text) == [err |-> NoError, text |-> text]
DecryptThrows == [err |-> GenericError, text |-> <<>>]
decrypt_IgnoreAlgorithm(v, password) ==
    LET key == deriveKey(password, v.salt)
        algorithm == CRYPTO_ALGORITHM
        c == v.encrypted
        same == c.alg = algorithm /\ c.key = key /\ c.iv = v.iv
    IN  IF password = NoSecret THEN {DecryptThrows}
        ELSE IF c.alg = AlgGcm /\ c.text = <<>> THEN {DecryptThrows}
        ELSE IF algorithm = AlgGcm
             THEN IF v.authTag = <<c>> /\ same THEN {DecryptDone(c.text)} ELSE {DecryptThrows}
        ELSE IF v.authTag # <<>> THEN {DecryptThrows}
        ELSE IF same THEN {DecryptDone(c.text)}
        ELSE {DecryptThrows, DecryptDone(Garbage)}
decrypt(v, password) ==
    LET key == deriveKey(password, v.salt)
        algorithm == IF v.algorithm = NoAlg THEN CRYPTO_ALGORITHM ELSE v.algorithm
        c == v.encrypted
        same == c.alg = algorithm /\ c.key = key /\ c.iv = v.iv
    IN  IF password = NoSecret THEN {DecryptThrows}
        ELSE IF c.alg = AlgGcm /\ c.text = <<>> THEN {DecryptThrows}
        ELSE IF algorithm = AlgGcm
             THEN IF v.authTag = <<c>> /\ same THEN {DecryptDone(c.text)} ELSE {DecryptThrows}
        ELSE IF v.authTag # <<>> THEN {DecryptThrows}
        ELSE IF same THEN {DecryptDone(c.text)}
        ELSE {DecryptThrows, DecryptDone(Garbage)}
DecryptOk(v, password) == v.enc /\ decrypt(v, password) = {DecryptDone(v.encrypted.text)}

\* the random bytes of the encryptions of the tag store: no operation of the
\* store compares two ciphertexts
StoreSalt == 1
StoreIv == 1

\* encryptSensitiveData on an object whose values are strings: the string
\* under a sensitive key is replaced by its ciphertext
EncryptMap(m, password) ==
    [k \in DOMAIN m |-> IF isSensitiveKey(k) THEN encrypt(m[k], password, StoreSalt, StoreIv)
                         ELSE Plain(m[k])]

\* decryptSensitiveData on such an object, as read from a file. An object with
\* a truthy `encrypted` member and a truthy `authTag` or `salt` member is
\* taken for a ciphertext, and so is an object value under any key.
LooksEncrypted(m) ==
    FieldEncrypted \in DOMAIN m /\ (FieldAuthTag \in DOMAIN m \/ FieldSalt \in DOMAIN m)
DecryptMapFails(m, password) ==
    \/ LooksEncrypted(m)
    \/ \E k \in DOMAIN m : m[k].enc /\ ~isSensitiveKey(k) /\ ~DecryptOk(m[k], password)
DecryptMap(m, password) ==
    [k \in DOMAIN m |->
        IF ~m[k].enc THEN m[k].text
        ELSE IF DecryptOk(m[k], password) THEN m[k].encrypted.text
        ELSE Placeholder]

(***************************************************************************)
(* crypto.js: encryptSensitiveData and decryptSensitiveData on any JSON    *)
(* structure. A value is [t, v]: a string ("str", its characters), an      *)
(* object ("obj", a map from keys to values), an array ("arr", a sequence  *)
(* of values) or an object that encrypt returned ("enc"). The values of    *)
(* type "enc" in these walks were made by encrypt (AES-256-GCM).           *)
(***************************************************************************)
JStr(s) == [t |-> "str", v |-> s]
JObj(f) == [t |-> "obj", v |-> f]
JArr(q) == [t |-> "arr", v |-> q]
JEnc(e) == [t |-> "enc", v |-> e]

\* !data, for the values of the model
Falsy(x) == x.t = "str" /\ x.v = <<>>

\* encryptSensitiveData(data) throws when encrypt does: an empty string under
\* a sensitive key of an object the walk reaches
RECURSIVE encryptWalkThrows(_)
encryptWalkThrows(data) ==
    /\ data.t = "obj"
    /\ \E key \in DOMAIN data.v :
          LET value == data.v[key]
          IN  IF isSensitiveKey(key) /\ value.t = "str" THEN value.v = <<>>
              ELSE value.t = "obj" /\ encryptWalkThrows(value)

\* encryptSensitiveData(data): a string is encrypted; the members of an object
\* are walked; an array, which is neither, is returned as it is
RECURSIVE encryptWalk(_, _)
encryptWalk(data, password) ==
    IF Falsy(data) THEN data
    ELSE IF data.t = "str" THEN JEnc(encrypt(data.v, password, StoreSalt, StoreIv))
    ELSE IF data.t = "obj"
    THEN JObj([key \in DOMAIN data.v |->
                 LET value == data.v[key]
                 IN  IF isSensitiveKey(key) /\ value.t = "str"
                     THEN JEnc(encrypt(value.v, password, StoreSalt, StoreIv))
                     ELSE IF value.t # "str" THEN encryptWalk(value, password)
                     ELSE value])
    ELSE data

\* data.encrypted && (data.authTag || data.salt), and value?.encrypted
JLooksEncrypted(data) ==
    \/ data.t = "enc"
    \/ /\ data.t = "obj"
       /\ FieldEncrypted \in DOMAIN data.v /\ ~Falsy(data.v[FieldEncrypted])
       /\ \E f \in {FieldAuthTag, FieldSalt} : f \in DOMAIN data.v /\ ~Falsy(data.v[f])
HasEncrypted(value) ==
    \/ value.t = "enc"
    \/ value.t = "obj" /\ FieldEncrypted \in DOMAIN value.v /\ ~Falsy(value.v[FieldEncrypted])
\* decrypt(value, masterKey) returns
JDecryptOk(value, password) == value.t = "enc" /\ DecryptOk(value.v, password)

\* decryptSensitiveData(data) throws: an object that looks encrypted and that
\* the walk reaches otherwise than as the value of a sensitive key is handed
\* to decrypt without a catch that goes on
RECURSIVE decryptWalkThrows(_, _)
decryptWalkThrows(data, password) ==
    /\ data.t \in {"obj", "enc"}
    /\ IF JLooksEncrypted(data) THEN ~JDecryptOk(data, password)
       ELSE \E key \in DOMAIN data.v :
              LET value == data.v[key]
              IN  /\ ~(isSensitiveKey(key) /\ value.t # "str" /\ HasEncrypted(value))
                  /\ value.t # "str"
                  /\ decryptWalkThrows(value, password)

RECURSIVE decryptWalk(_, _)
decryptWalk(data, password) ==
    IF Falsy(data) \/ data.t \in {"str", "arr"} THEN data
    ELSE IF JLooksEncrypted(data) THEN JStr(data.v.encrypted.text)
    ELSE JObj([key \in DOMAIN data.v |->
                 LET value == data.v[key]
                 IN  IF isSensitiveKey(key) /\ value.t # "str" /\ HasEncrypted(value)
                     THEN IF JDecryptOk(value, password) THEN JStr(value.v.encrypted.text)
                          ELSE JStr(Placeholder)
                     ELSE IF value.t # "str" THEN decryptWalk(value, password)
                     ELSE value])

(***************************************************************************)
(* unified-config.js: tag documents and the active-tag pointer.            *)
(* A JavaScript object keyed by MCP names is a map together with the       *)
(* insertion order of its keys (mcpNames).                                 *)
(***************************************************************************)
createDefaultTag(tagName, description, names, mcps, t) ==
    [name |-> tagName, description |-> description, created |-> t, updated |-> t,
     mcpNames |-> names, mcps |-> mcps, environment |-> EmptyMap]

\* the defaults of saveTagConfig, every one overridden by the member of the
\* same name that tagConfig carries (the spread comes last)
SavedDefaults(tagName, tagConfig, t) ==
    [name |-> tagName,
     created |-> IF "created" \in DOMAIN tagConfig /\ tagConfig.created # 0
                 THEN tagConfig.created ELSE t,
     updated |-> t,
     description |-> IF "description" \in DOMAIN tagConfig THEN tagConfig.description ELSE <<>>,
     mcpNames |-> IF "mcps" \in DOMAIN tagConfig THEN tagConfig.mcpNames ELSE <<>>,
     mcps |-> IF "mcps" \in DOMAIN tagConfig THEN tagConfig.mcps ELSE EmptyMap,
     environment |-> IF "environment" \in DOMAIN tagConfig THEN tagConfig.environment
                     ELSE EmptyMap]

\* a save that writes an empty mcps object
saveTagConfig_NoMcps(tagName, tagConfig, t) ==
    [SavedDefaults(tagName, tagConfig, t) EXCEPT !.mcps = EmptyMap, !.mcpNames = <<>>]

\* saveTagConfig: the document it builds
saveTagConfig(tagName, tagConfig, t) ==
    LET base == SavedDefaults(tagName, tagConfig, t)
    IN  [f \in (DOMAIN base) \cup (DOMAIN tagConfig) |->
            IF f \in DOMAIN tagConfig THEN tagConfig[f] ELSE base[f]]

\* encryptSensitiveData(config): none of the fixed member names of a tag
\* document matches a sensitive pattern; mcps and environment are walked
encryptSensitiveData(config, password) ==
    [config EXCEPT !.mcps = EncryptMap(@, password),
                   !.environment = EncryptMap(@, password)]

\* what saveTagConfig leaves in the tag file
TagFileAfterSave(tagName, tagConfig, t, kf) ==
    encryptSensitiveData(saveTagConfig(tagName, tagConfig, t), getMasterKey(kf))

tagExists(tagName) == tagName \in DOMAIN tagFiles

\* getTagConfig of an existing tag
getTagConfigFails(doc, password) ==
    DecryptMapFails(doc.mcps, password) \/ DecryptMapFails(doc.environment, password)
getTagConfig(doc, password) ==
    [doc EXCEPT !.mcps = DecryptMap(@, password),
                !.environment = DecryptMap(@, password)]

\* deleteTag: the tag files it leaves
deleteTag(files, tagName) == IF tagName \in DOMAIN files THEN Remove(files, tagName) ELSE files

(***************************************************************************)
(* tags.js: presets and inputs of the commands.                            *)
(***************************************************************************)
McpWhatsapp == <<"w","h","a","t","s","a","p","p">>
McpFilesystem == <<"f","i","l","e","s","y","s","t","e","m">>
McpGithub == <<"g","i","t","h","u","b">>
McpMemory == <<"m","e","m","o","r","y">>
McpPostgres == <<"p","o","s","t","g","r","e","s">>

MCP_PRESETS ==
    (McpWhatsapp :> <<"g","i","t","h","u","b",":","l","h","a","r","r","i","e","s","/","w","h","a","t","s","a","p","p","-","m","c","p">>)
 @@ (McpFilesystem :> <<"n","p","m",":","@","m","o","d","e","l","c","o","n","t","e","x","t","p","r","o","t","o","c","o","l","/","s","e","r","v","e","r","-","f","i","l","e","s","y","s","t","e","m">>)
 @@ (McpGithub :> <<"n","p","m",":","@","m","o","d","e","l","c","o","n","t","e","x","t","p","r","o","t","o","c","o","l","/","s","e","r","v","e","r","-","g","i","t","h","u","b">>)
 @@ (McpMemory :> <<"n","p","m",":","@","m","o","d","e","l","c","o","n","t","e","x","t","p","r","o","t","o","c","o","l","/","s","e","r","v","e","r","-","m","e","m","o","r","y">>)
 @@ (McpPostgres :> <<"n","p","m",":","@","m","o","d","e","l","c","o","n","t","e","x","t","p","r","o","t","o","c","o","l","/","s","e","r","v","e","r","-","p","o","s","t","g","r","e","s">>)

\* the presets of quickstartCommand: the MCPs each adds and its description
QuickstartPresets ==
    [ whatsappDev |-> [mcps |-> <<McpWhatsapp, McpFilesystem, McpMemory>>, description |-> <<"w">>],
      fullStack |-> [mcps |-> <<McpFilesystem, McpGithub, McpPostgres, McpMemory>>,
                     description |-> <<"f">>],
      minimal |-> [mcps |-> <<McpFilesystem>>, description |-> <<"m">>] ]

TagQuickstart == <<"q","u","i","c","k","s","t","a","r","t">>
TagA == <<"a">>
TagDefault == <<"d","e","f","a","u","l","t">>
TagBadPattern == <<"-","a">>
TagReserved == <<"L","i","s","t">>
TagTooLong == [k \in 1..(TAG_NAME_MAX_LENGTH + 1) |-> "a"]
\* tag names given to the commands that validate them
TagNameInputs == {TagA, TagQuickstart, TagBadPattern, TagReserved, TagTooLong}
\* values of --tag given to quickstart
QuickstartTags == {TagA, TagQuickstart, TagBadPattern}
Descriptions == {<<"d">>}

(***************************************************************************)
(* tags.js: the commands on tags. initialize() only makes the directories. *)
(***************************************************************************)
Failed(op, id, err) ==
    /\ last' = Outcome(op, id, err)
    /\ UNCHANGED <<now, tagFiles, activeTag, keyFile, toolFiles>>

\* createCommand with the tag name given as argument
CreateCommand(tagName, description, shouldUse) ==
    /\ tagName # <<>>
    /\ IF ValidatorsTagName(tagName) # NoError THEN Failed("create", tagName, ValidationError)
       ELSE IF tagExists(tagName) THEN Failed("create", tagName, TagError)
       ELSE \E t \in Clock :
              /\ now' = t
              /\ tagFiles' = Put(tagFiles, tagName,
                                 TagFileAfterSave(tagName,
                                     createDefaultTag(tagName, description, <<>>, EmptyMap, t),
                                     t, keyFile))
              /\ keyFile' = getMasterKey(keyFile)
              /\ UNCHANGED toolFiles
              /\ activeTag' = IF shouldUse THEN tagName ELSE activeTag
              /\ last' = Outcome("create", tagName, NoError)
    /\ UNCHANGED <<supVars, batch>>

PresetMcps(names) == [n \in Range(names) \cap DOMAIN MCP_PRESETS |-> MCP_PRESETS[n]]

\* quickstartCommand: the tag name is taken as given
QuickstartCommand(preset, tagName, overwrite) ==
    /\ IF tagExists(tagName) /\ ~overwrite THEN Failed("quickstart", tagName, NoError)
       ELSE \E t \in Clock :
              /\ now' = t
              /\ tagFiles' = Put(tagFiles, tagName,
                                 TagFileAfterSave(tagName,
                                     createDefaultTag(tagName, QuickstartPresets[preset].description,
                                                      QuickstartPresets[preset].mcps,
                                                      PresetMcps(QuickstartPresets[preset].mcps), t),
                                     t, keyFile))
              /\ keyFile' = getMasterKey(keyFile)
              /\ UNCHANGED toolFiles
              /\ activeTag' = tagName
              /\ last' = [Outcome("create", tagName, NoError) EXCEPT
                             !.mcps = PresetMcps(QuickstartPresets[preset].mcps)]
    /\ UNCHANGED <<supVars, batch>>

\* getTagConfig(tagName): count is 0 when it returns null
GetTag(tagName) ==
    /\ IF ~tagExists(tagName)
       THEN /\ last' = Outcome("get", tagName, NoError)
            /\ UNCHANGED <<keyFile, toolFiles>>
       ELSE /\ keyFile' = getMasterKey(keyFile)
            /\ UNCHANGED toolFiles
            /\ IF getTagConfigFails(tagFiles[tagName], getMasterKey(keyFile))
               THEN last' = Outcome("get", tagName, ConfigError)
               ELSE last' = [Outcome("get", tagName, NoError) EXCEPT
                                !.count = 1,
                                !.mcps = getTagConfig(tagFiles[tagName], getMasterKey(keyFile)).mcps]
    /\ UNCHANGED <<now, tagFiles, activeTag, supVars, batch>>

\* useCommand, without --start and without an export option
UseCommand(arg) ==
    /\ LET tagName == sanitizeInput(arg)
       IN  IF validateArgs(1, 1) # NoError THEN Failed("use", arg, validateArgs(1, 1))
           ELSE IF ValidatorsTagName(tagName) # NoError THEN Failed("use", arg, ValidationError)
           ELSE IF ~tagExists(tagName) THEN Failed("use", arg, TagError)
           ELSE IF getTagConfigFails(tagFiles[tagName], getMasterKey(keyFile))
           THEN /\ last' = Outcome("use", arg, ConfigError)
                /\ keyFile' = getMasterKey(keyFile)
                /\ UNCHANGED toolFiles
                /\ UNCHANGED <<now, tagFiles, activeTag>>
           ELSE /\ activeTag' = tagName
                /\ keyFile' = getMasterKey(keyFile)
                /\ UNCHANGED toolFiles
                /\ last' = Outcome("use", arg, NoError)
                /\ UNCHANGED <<now, tagFiles>>
    /\ UNCHANGED <<supVars, batch>>

\* deleteCommand
DeleteCommand(tagName, confirmDelete) ==
    /\ IF validateArgs(1, 1) # NoError THEN Failed("delete", tagName, validateArgs(1, 1))
       ELSE IF ValidatorsTagName(tagName) # NoError THEN Failed("delete", tagName, ValidationError)
       ELSE IF ~tagExists(tagName) THEN Failed("delete", tagName, TagError)
       ELSE IF tagName = getActiveTag(activeTag) THEN Failed("delete", tagName, TagError)
       ELSE IF ~confirmDelete THEN Failed("delete", tagName, NoError)
       ELSE /\ tagFiles' = deleteTag(tagFiles, tagName)
            /\ last' = [Outcome("delete", tagName, NoError) EXCEPT !.count = 1]
            /\ UNCHANGED <<now, activeTag, keyFile, toolFiles>>
    /\ UNCHANGED <<supVars, batch>>

\* the store operation deleteTag(tagName), as the module exports it: count is 1
\* when it returns true
DeleteTag(tagName) ==
    /\ tagFiles' = deleteTag(tagFiles, tagName)
    /\ last' = [Outcome("deleteTag", tagName, NoError) EXCEPT
                   !.count = IF tagExists(tagName) THEN 1 ELSE 0]
    /\ UNCHANGED <<now, activeTag, keyFile, toolFiles, supVars, batch>>

StoreNext ==
    \/ \E tagName \in TagNameInputs, description \in Descriptions, shouldUse \in BOOLEAN :
          CreateCommand(tagName, description, shouldUse)
    \/ \E preset \in DOMAIN QuickstartPresets, tagName \in QuickstartTags, overwrite \in BOOLEAN :
          QuickstartCommand(preset, tagName, overwrite)
    \/ \E tagName \in TagNameInputs : GetTag(tagName)
    \/ \E tagName \in TagNameInputs : UseCommand(tagName)
    \/ \E tagName \in TagNameInputs, confirmDelete \in BOOLEAN : DeleteCommand(tagName, confirmDelete)
    \/ \E tagName \in TagNameInputs : DeleteTag(tagName)
    \/ \E processId \in AllIds \cup {BadProcessId} : Kill(Main, processId)

StoreSpec == Init /\ [][StoreNext]_vars

\* the text of active-tag.json is cut short or overwritten with something
\* that is not JSON
PointerFileDamaged ==
    /\ activeTag \notin {NoTag, MalformedPointer}
    /\ activeTag' = MalformedPointer
    /\ last' = Quiet
    /\ UNCHANGED <<now, supVars, tagFiles, keyFile, toolFiles, batch>>

(***************************************************************************)
(* tags.js: startCommand and startTagMCPs. Each await of startMCP is a     *)
(* point where other callbacks of the invocation run.                      *)
(***************************************************************************)
\* a summary that reports every MCP as started
BatchResult_AlwaysStarted(name, err) == [name |-> name, status |-> "started"]

\* the entry of the summary for one MCP: the catch of the loop records a failure
BatchResult(name, err) ==
    [name |-> name, status |-> IF err # NoError THEN "failed" ELSE "started"]

\* tagConfig.env, the third argument of startMCP: undefined, and so the
\* default {} of the parameter, for a tag document without an `env` member
TagEnvPassed(tagConfig) == IF "env" \in DOMAIN tagConfig THEN tagConfig.env ELSE EmptyMap

\* startCommand(args): without argument the active tag is started
StartCommand(i, arg) ==
    /\ ctx[i].stage = "idle"
    /\ batch = NoBatch
    /\ LET tagName == IF arg = <<>> THEN getActiveTag(activeTag) ELSE arg
       IN  IF tagName = NoTag
           THEN /\ last' = Outcome("startTag", arg, "Error")
                /\ UNCHANGED <<batch, keyFile, toolFiles>>
           ELSE IF ~tagExists(tagName)
           THEN /\ last' = Outcome("startTag", arg, TagError)
                /\ UNCHANGED <<batch, keyFile, toolFiles>>
           ELSE IF getTagConfigFails(tagFiles[tagName], getMasterKey(keyFile))
           THEN /\ last' = Outcome("startTag", arg, ConfigError)
                /\ keyFile' = getMasterKey(keyFile)
                /\ UNCHANGED toolFiles
                /\ UNCHANGED batch
           ELSE IF tagFiles[tagName].mcpNames = <<>>
           THEN /\ last' = Outcome("startTag", arg, NoError)
                /\ keyFile' = getMasterKey(keyFile)
                /\ UNCHANGED toolFiles
                /\ UNCHANGED batch
           ELSE /\ batch' = [inv |-> i, tag |-> tagName,
                             names |-> tagFiles[tagName].mcpNames,
                             todo |-> tagFiles[tagName].mcpNames,
                             mcps |-> getTagConfig(tagFiles[tagName], getMasterKey(keyFile)).mcps,
                             env |-> TagEnvPassed(getTagConfig(tagFiles[tagName],
                                                               getMasterKey(keyFile))),
                             environment |-> getTagConfig(tagFiles[tagName],
                                                          getMasterKey(keyFile)).environment,
                             results |-> <<>>]
                /\ keyFile' = getMasterKey(keyFile)
                /\ UNCHANGED toolFiles
                /\ last' = Quiet
    /\ UNCHANGED <<now, supVars, tagFiles, activeTag>>

\* what `git clone` does in a batch: it fails, or gives a working copy with or
\* without an entry point
BatchCloneOutcomes == {CloneFailed,
                       [ok |-> TRUE, files |-> {"index.js"}, pkg |-> "none", bin |-> <<>>, origin |-> <<>>],
                       [ok |-> TRUE, files |-> {}, pkg |-> "none", bin |-> <<>>, origin |-> <<>>]}

\* the loop calls startMCP for the next name
BatchItemBegin(i) ==
    /\ batch.inv = i
    /\ batch.todo # <<>>
    /\ \E t \in Clock :
          BeginStart(i, Head(batch.todo), batch.mcps[Head(batch.todo)], batch.env, t)
    /\ UNCHANGED <<nextH, osAlive, child, procs, timers, registry, cache,
                   tagFiles, activeTag, keyFile, toolFiles, batch>>

\* startMCP resolves and spawns; an error it throws is caught by the loop
BatchItemSpawn(i) ==
    /\ batch.inv = i
    /\ \E outcome \in BatchCloneOutcomes, spawned \in BOOLEAN : SpawnChild(i, outcome, spawned)
    /\ batch' = IF ctx'[i].stage = "idle"
                THEN [batch EXCEPT !.results = Append(@, BatchResult(Head(batch.todo), last'.err)),
                                   !.todo = Tail(@)]
                ELSE batch
    /\ UNCHANGED <<now, procs, timers, registry, tagFiles, activeTag, keyFile, toolFiles>>

\* startMCP returns the process id
BatchItemPersist(i) ==
    /\ batch.inv = i
    /\ PersistRecord(i)
    /\ batch' = [batch EXCEPT !.results = Append(@, BatchResult(Head(batch.todo), NoError)),
                              !.todo = Tail(@)]
    /\ UNCHANGED <<now, nextH, osAlive, timers, cache, tagFiles, activeTag, keyFile, toolFiles>>

\* the summary is printed
BatchEnd(i) ==
    /\ batch.inv = i
    /\ batch.todo = <<>>
    /\ ctx[i].stage = "idle"
    /\ last' = [Outcome("startTag", batch.tag, NoError) EXCEPT !.results = batch.results]
    /\ batch' = NoBatch
    /\ UNCHANGED <<now, supVars, tagFiles, activeTag, keyFile, toolFiles>>

\* the store operation saveTagConfig on a tag that was read with getTagConfig
\* and given an environment map
TagEnvInputs == {EmptyMap, (EnvApiKey :> <<"t","a","g">>)}
SetTagEnvironment(tagName, env) ==
    /\ tagExists(tagName)
    /\ ~getTagConfigFails(tagFiles[tagName], getMasterKey(keyFile))
    /\ \E t \in Clock :
          /\ now' = t
          /\ tagFiles' = Put(tagFiles, tagName,
                 TagFileAfterSave(tagName,
                     [getTagConfig(tagFiles[tagName], getMasterKey(keyFile))
                         EXCEPT !.environment = env],
                     t, keyFile))
    /\ keyFile' = getMasterKey(keyFile)
    /\ UNCHANGED toolFiles
    /\ last' = Outcome("save", tagName, NoError)
    /\ UNCHANGED <<activeTag, supVars, batch>>

BatchSetEnvironment(env) ==
    /\ batch = NoBatch
    /\ SetTagEnvironment(TagQuickstart, env)

\* the commands typed in one terminal run one after the other
BatchQuickstart(preset, overwrite) ==
    /\ batch = NoBatch
    /\ QuickstartCommand(preset, TagQuickstart, overwrite)

BatchNext ==
    \/ \E preset \in DOMAIN QuickstartPresets, overwrite \in BOOLEAN :
          BatchQuickstart(preset, overwrite)
    \/ \E env \in TagEnvInputs : BatchSetEnvironment(env)
    \/ \E arg \in {TagQuickstart, TagA, <<>>} : StartCommand(Main, arg)
    \/ BatchItemBegin(Main)
    \/ BatchItemSpawn(Main)
    \/ BatchItemPersist(Main)
    \/ BatchEnd(Main)
    \/ \E h \in Handles : ExitEvent(h)
    \/ \E pid \in Handles : ChildExits(pid)

BatchSpec == Init /\ [][BatchNext]_vars

\* tags without MCPs are created and started while the pointer file is damaged
PointerNext ==
    \/ \E tagName \in {TagA, TagDefault}, description \in Descriptions, shouldUse \in BOOLEAN :
          CreateCommand(tagName, description, shouldUse)
    \/ \E arg \in {TagA, TagDefault, <<>>} : StartCommand(Main, arg)
    \/ \E tagName \in {TagA, TagDefault} : DeleteTag(tagName)
    \/ PointerFileDamaged

PointerSpec == Init /\ [][PointerNext]_vars

(***************************************************************************)
(* Two invocations at work on the tag files at the same time: `nvmcp init` *)
(* in two terminals, and `nvmcp add`. The wizard keeps its tagConfig       *)
(* object (ctx[i].doc) across its prompts and writes it as a whole.        *)
(***************************************************************************)
WizardTags == {TagDefault, TagA}
WizardSelections == {<<McpWhatsapp>>, <<McpFilesystem>>}

\* the answer to the prompt 'Tag name': the prompt asks again until the name
\* is valid and no tag has it
InitName(i, tagName) ==
    /\ ctx[i].stage = "idle"
    /\ ValidatorsTagName(tagName) = NoError
    /\ ~tagExists(tagName)
    /\ ctx' = [ctx EXCEPT ![i] = [IdleCtx EXCEPT !.stage = "init-name", !.name = tagName]]
    /\ last' = Quiet
    /\ UNCHANGED <<now, nextH, osAlive, child, procs, timers, registry, cache,
                   storeVars, batch>>

\* the answer to 'Description': createDefaultTag, saveTagConfig, setActiveTag
InitCreate(i, description) ==
    /\ ctx[i].stage = "init-name"
    /\ \E t \in Clock :
          LET tagName == ctx[i].name
              tagConfig == createDefaultTag(tagName, description, <<>>, EmptyMap, t)
              before == IF tagExists(tagName) THEN DOMAIN tagFiles[tagName].mcps ELSE {}
          IN  /\ now' = t
              /\ tagFiles' = Put(tagFiles, tagName,
                                 TagFileAfterSave(tagName, tagConfig, t, keyFile))
              /\ keyFile' = getMasterKey(keyFile)
              /\ UNCHANGED toolFiles
              /\ activeTag' = tagName
              /\ ctx' = [ctx EXCEPT ![i].stage = "init-mcps", ![i].doc = tagConfig]
              /\ last' = [Outcome("save", tagName, NoError) EXCEPT
                             !.mcps = tagConfig.mcps, !.arg = <<tagConfig>>,
                             !.lost = before \ DOMAIN tagConfig.mcps]
    /\ UNCHANGED <<nextH, osAlive, child, procs, timers, registry, cache, batch>>

\* the answers of step 2: with addMCPs the selected presets are put into the
\* tagConfig object and the object is saved
InitAddMcps(i, addMCPs, selected) ==
    /\ ctx[i].stage = "init-mcps"
    /\ ctx' = [ctx EXCEPT ![i] = [IdleCtx EXCEPT !.stage = "init-export", !.name = ctx[i].name]]
    /\ IF ~addMCPs
       THEN /\ last' = Quiet
            /\ UNCHANGED <<now, storeVars>>
       ELSE \E t \in Clock :
              LET tagName == ctx[i].name
                  added == PresetMcps(selected)
                  tagConfig == [ctx[i].doc EXCEPT
                                   !.mcps = [n \in DOMAIN @ \cup DOMAIN added |->
                                                IF n \in DOMAIN added THEN added[n] ELSE @[n]],
                                   !.mcpNames = @ \o SelectSeq(selected,
                                                    LAMBDA n : n \notin Range(@))]
                  before == IF tagExists(tagName) THEN DOMAIN tagFiles[tagName].mcps ELSE {}
              IN  /\ now' = t
                  /\ tagFiles' = Put(tagFiles, tagName,
                                     TagFileAfterSave(tagName, tagConfig, t, keyFile))
                  /\ keyFile' = getMasterKey(keyFile)
                  /\ UNCHANGED toolFiles
                  /\ last' = [Outcome("save", tagName, NoError) EXCEPT
                                 !.mcps = tagConfig.mcps, !.arg = <<tagConfig>>,
                                 !.lost = before \ DOMAIN tagConfig.mcps]
                  /\ UNCHANGED activeTag
    /\ UNCHANGED <<nextH, osAlive, child, procs, timers, registry, cache, batch>>

\* addCommand with a preset name and no overwrite prompt
AddCommand(i, preset) ==
    /\ ctx[i].stage = "idle"
    /\ IF validateArgs(1, 1) # NoError THEN Failed("add", preset, validateArgs(1, 1))
       ELSE IF getActiveTag(activeTag) = NoTag \/ ~tagExists(activeTag)
            THEN Failed("add", preset, TagError)
       ELSE IF getTagConfigFails(tagFiles[activeTag], getMasterKey(keyFile))
            THEN Failed("add", preset, ConfigError)
       ELSE \E t \in Clock :
              LET read == getTagConfig(tagFiles[activeTag], getMasterKey(keyFile))
                  tagConfig == [read EXCEPT !.mcps = Put(@, preset, MCP_PRESETS[preset])]
              IN  /\ now' = t
                  /\ tagFiles' = Put(tagFiles, activeTag,
                                     TagFileAfterSave(activeTag, tagConfig, t, keyFile))
                  /\ keyFile' = getMasterKey(keyFile)
                  /\ UNCHANGED toolFiles
                  /\ last' = [Outcome("save", activeTag, NoError) EXCEPT
                                 !.mcps = tagConfig.mcps]
                  /\ UNCHANGED activeTag
    /\ UNCHANGED <<supVars, batch>>

\* saveTagConfig called with an object that has a description and nothing else
SaveDescription(i, tagName, description) ==
    /\ ctx[i].stage = "idle"
    /\ \E t \in Clock :
          LET tagConfig == [description |-> description]
              before == IF tagExists(tagName) THEN DOMAIN tagFiles[tagName].mcps ELSE {}
              saved == saveTagConfig(tagName, tagConfig, t)
          IN  /\ now' = t
              /\ tagFiles' = Put(tagFiles, tagName,
                                 TagFileAfterSave(tagName, tagConfig, t, keyFile))
              /\ keyFile' = getMasterKey(keyFile)
              /\ UNCHANGED toolFiles
              /\ last' = [Outcome("save", tagName, NoError) EXCEPT
                             !.mcps = saved.mcps, !.arg = <<tagConfig>>,
                             !.lost = before \ DOMAIN saved.mcps]
    /\ UNCHANGED <<activeTag, supVars, batch>>

(***************************************************************************)
(* tags.js exportTagToTool: the MCP configuration file of another tool.    *)
(* A file is [other, mcpServers]: its top-level members other than         *)
(* mcpServers, and the members of its mcpServers object.                   *)
(***************************************************************************)
ToolClaude == "claude"
ToolCursor == "cursor"
ToolVscode == "vscode"
ToolSkip == "skip"
Tools == {ToolClaude, ToolCursor, ToolVscode}
CmdNpx == <<"n","p","x">>
CmdNode == <<"n","o","d","e">>
ServerHttpPackage == <<"@","m","c","p","/","s","e","r","v","e","r","-","h","t","t","p">>
ArgPlaceholder == <<"p","l","a","c","e","h","o","l","d","e","r">>
PathJoin(dir, file) == dir \o <<"/">> \o file

\* the member of mcpServers built for one source of the tag
mcpServerOf(source) ==
    LET sourceInfo == parseSource(source)
    IN  CASE sourceInfo.type = "remote" ->
               [command |-> CmdNpx, args |-> <<ServerHttpPackage, sourceInfo.target>>]
          [] sourceInfo.type = "npm" ->
               [command |-> CmdNpx, args |-> <<sourceInfo.target>>]
          [] sourceInfo.type = "github" ->
               [command |-> CmdNode,
                args |-> <<PathJoin(getCacheDir(sourceInfo.name), <<"i","n","d","e","x",".","j","s">>)>>]
          [] OTHER ->
               [command |-> CmdNode, args |-> <<ArgPlaceholder>>]

\* mcpConfig: the object that is written
mcpConfigOf(tagConfig) ==
    [other |-> EmptyMap,
     mcpServers |-> [name \in DOMAIN tagConfig.mcps |-> mcpServerOf(tagConfig.mcps[name])]]

\* the error thrown, NoError when the file is written
exportTagToToolError(tagName, toolName) ==
    IF ~tagExists(tagName) THEN TagError
    ELSE IF getTagConfigFails(tagFiles[tagName], getMasterKey(keyFile)) THEN ConfigError
    ELSE IF toolName \notin Tools THEN ValidationError
    ELSE NoError

\* the files of the tools after the call: writeFileSync(configPath, mcpConfig)
exportTagToTool(tagName, toolName) ==
    IF exportTagToToolError(tagName, toolName) # NoError THEN toolFiles
    ELSE Put(toolFiles, toolName,
             mcpConfigOf(getTagConfig(tagFiles[tagName], getMasterKey(keyFile))))

\* step 3 of the wizard: the answer to 'Export to which tool?'; an error of
\* the export is printed and the wizard ends
InitExport(i, exportTool) ==
    /\ ctx[i].stage = "init-export"
    /\ ctx' = [ctx EXCEPT ![i] = IdleCtx]
    /\ IF exportTool = ToolSkip
       THEN /\ last' = Quiet
            /\ UNCHANGED <<keyFile, toolFiles>>
       ELSE /\ toolFiles' = exportTagToTool(ctx[i].name, exportTool)
            /\ keyFile' = IF tagExists(ctx[i].name) THEN getMasterKey(keyFile) ELSE keyFile
            /\ last' = [Outcome("export", ctx[i].name,
                                exportTagToToolError(ctx[i].name, exportTool))
                           EXCEPT !.arg = <<exportTool>>]
    /\ UNCHANGED <<now, nextH, osAlive, child, procs, timers, registry, cache,
                   tagFiles, activeTag, batch>>

\* what the owner of a tool keeps in its file: a setting and a server of
\* their own, or a server under the name of a preset
OwnTheme == <<"t","h","e","m","e">>
OwnServer == <<"o","w","n">>
OwnEntry == [command |-> CmdNode, args |-> <<OwnServer>>]
ToolDocs ==
    {[other |-> (OwnTheme :> <<"d","a","r","k">>), mcpServers |-> EmptyMap],
     [other |-> EmptyMap, mcpServers |-> (OwnServer :> OwnEntry)],
     [other |-> EmptyMap, mcpServers |-> (McpFilesystem :> OwnEntry)]}

\* the tool, or its user, writes the tool's file
ToolConfigEdited(toolName, doc) ==
    /\ IF toolName \in DOMAIN toolFiles THEN toolFiles[toolName] # doc ELSE TRUE
    /\ toolFiles' = Put(toolFiles, toolName, doc)
    /\ last' = Quiet
    /\ UNCHANGED <<now, supVars, tagFiles, activeTag, keyFile, batch>>

WriterNext ==
    \/ \E i \in Invs, tagName \in WizardTags, description \in {<<"e">>} :
          SaveDescription(i, tagName, description)
    \/ \E i \in Invs, tagName \in WizardTags : InitName(i, tagName)
    \/ \E i \in Invs, description \in Descriptions : InitCreate(i, description)
    \/ \E i \in Invs, addMCPs \in BOOLEAN, selected \in WizardSelections :
          InitAddMcps(i, addMCPs, selected)
    \/ \E i \in Invs, preset \in {McpGithub} : AddCommand(i, preset)
    \/ \E i \in Invs, exportTool \in {ToolSkip} : InitExport(i, exportTool)

WriterSpec == Init /\ [][WriterNext]_vars

\* one wizard, and the owner of the tools at work on the tools' files
ExportNext ==
    \/ \E tagName \in WizardTags : InitName(Main, tagName)
    \/ \E description \in Descriptions : InitCreate(Main, description)
    \/ \E addMCPs \in BOOLEAN, selected \in WizardSelections :
          InitAddMcps(Main, addMCPs, selected)
    \/ \E exportTool \in Tools \cup {ToolSkip} : InitExport(Main, exportTool)
    \/ \E toolName \in {ToolClaude, ToolCursor}, doc \in ToolDocs : ToolConfigEdited(toolName, doc)

ExportSpec == Init /\ [][ExportNext]_vars

(***************************************************************************)
(* The library functions called on their own: encrypt, decrypt,            *)
(* isSensitiveKey and parseSource, applied to arguments of small sets.     *)
(* The call and what it returned are in `last`.                            *)
(***************************************************************************)
Texts == {<<>>, <<"s">>, <<"a","b">>}
Secrets == {1, 2}
Salts == {1, 2}
Ivs == {1, 2}

\* values an earlier release wrote: AES-256-CBC, no authTag, the algorithm
\* member present or not
LegacyValues ==
    {[enc |-> TRUE, encrypted |-> Cipher(CRYPTO_ALGORITHM, deriveKey(k, s), i, t),
      salt |-> s, iv |-> i, authTag |-> <<>>, algorithm |-> a] :
        k \in Secrets, s \in Salts, i \in Ivs, t \in Texts \ {<<>>},
        a \in {NoAlg, CRYPTO_ALGORITHM}}

KeyInputs ==
    {<<"a","p","i","K","e","y">>, <<"p","a","s","s","w","o","r","d">>,
     <<"s","e","c","r","e","t">>, <<"t","o","k","e","n">>,
     <<"n","o","r","m","a","l","F","i","e","l","d">>,
     <<"A","P","I","_","U","R","L">>, <<"O","A","u","t","h">>,
     <<"a","u","t","h","o","r","i","z","a","t","i","o","n">>,
     <<"c","r","e","d","e","n","t","i","a","l","s">>,
     <<"c","r","e","d","e","n","t","i","a","l">>,
     <<"S","e","s","s","i","o","n","I","d">>, <<"c","o","o","k","i","e","s">>,
     <<"p","o","r","t">>}

SrcNpmFoo == <<"n","p","m",":","f","o","o">>
SrcHttpsXYZ == <<"h","t","t","p","s",":","/","/","x","/","y","/","z">>
SrcGitXY == <<"g","i","t","+","h","t","t","p","s",":","/","/","x","/","y",".","g","i","t">>
SrcBare == <<"@","s","/","p">>
SrcHttpX == <<"h","t","t","p",":","/","/","x">>
SourceInputs == {SrcNpmFoo, SrcGithubOR, SrcHttpsXYZ, SrcGitXY, SrcBare, SrcHttpX, SrcNpmFs}

\* structures handed to encryptSensitiveData: a sensitive member, a nested
\* object, an object inside an array, no sensitive member, an empty secret
KeyPassword == <<"p","a","s","s","w","o","r","d">>
KeyPort == <<"p","o","r","t">>
KeyDb == <<"d","b">>
KeyServers == <<"s","e","r","v","e","r","s">>
JsonInputs ==
    {JObj(KeyPassword :> JStr(<<"s">>)),
     JObj((KeyPort :> JStr(<<"5">>)) @@ (KeyPassword :> JStr(<<"s">>))),
     JObj(KeyDb :> JObj((KeyPassword :> JStr(<<"s">>)) @@ (KeyPort :> JStr(<<"5">>)))),
     JObj(KeyServers :> JArr(<<JObj(KeyPassword :> JStr(<<"s">>))>>)),
     JObj(KeyPort :> JStr(<<"5">>)),
     JObj(KeyPassword :> JStr(<<>>))}

\* structures read from a file in which an encrypted value is the value of a
\* member whose name is not sensitive
StoredJson ==
    {JObj((KeyPort :> JStr(<<"5">>)) @@ (KeyDb :> JEnc(encrypt(<<"s">>, k, StoreSalt, StoreIv)))) :
        k \in Secrets}

Call(op, err, arg, ret) == [Outcome(op, NoId, err) EXCEPT !.arg = arg, !.ret = ret]

Encrypt(text, password, salt, iv) ==
    /\ last' = IF encryptFails(text, password)
               THEN Call("encrypt", GenericError, <<text, password>>, <<>>)
               ELSE Call("encrypt", NoError, <<text, password>>,
                         encrypt(text, password, salt, iv))
    /\ UNCHANGED <<now, supVars, storeVars, batch>>

\* decrypt of the value the preceding call of encrypt returned
DecryptFresh(password) ==
    /\ last.op = "encrypt" /\ last.err = NoError
    /\ \E o \in decrypt(last.ret, password) :
          last' = Call("decrypt", o.err, <<last.ret, password>>, o.text)
    /\ UNCHANGED <<now, supVars, storeVars, batch>>

\* decrypt of a value read from a file
DecryptStored(v, password) ==
    /\ \E o \in decrypt(v, password) :
          last' = Call("decrypt", o.err, <<v, password>>, o.text)
    /\ UNCHANGED <<now, supVars, storeVars, batch>>

SensitiveKey(key) ==
    /\ last' = Call("isSensitiveKey", NoError, <<key>>, isSensitiveKey(key))
    /\ UNCHANGED <<now, supVars, storeVars, batch>>

ParseSource(source) ==
    /\ last' = Call("parseSource", NoError, <<source>>, parseSource(source))
    /\ UNCHANGED <<now, supVars, storeVars, batch>>

\* working copies with a manifest that has a bin member: a string, and an
\* object with two commands in either order
BinContents ==
    { [ok |-> TRUE, files |-> {"package.json", "index.js"}, pkg |-> "bin", bin |-> b, origin |-> <<>>] :
        b \in { <<<< <<"a">>, "a.js" >>>>,
                << << <<"a">>, "a.js" >>, << <<"b">>, "b.js" >> >>,
                << << <<"b">>, "b.js" >>, << <<"a">>, "a.js" >> >> } }
ResolveOutcomes ==
    CloneOutcomes \cup BinContents \cup
    {CloneKilled, [ok |-> TRUE, files |-> {"server.py", "mcp.py"}, pkg |-> "none", bin |-> <<>>, origin |-> <<>>]}
ResolveSources == {SrcGithubOR, SrcGithubPR, SrcGitXY, SrcNpmFs}

\* resolveCommand(source) on the cache as it is; `outcome` is what git clone
\* does if the resolver runs it
Resolve(source, outcome) ==
    LET r == resolveCommand(cache, source, outcome)
    IN  /\ cache' = r.cache
        /\ last' = Call("resolve", r.err, <<source, outcome>>,
                        [cmd |-> r.cmd, arg |-> r.arg, cwd |-> r.cwd])
        /\ UNCHANGED <<now, nextH, osAlive, child, procs, timers, ctx, registry,
                       storeVars, batch>>

\* the user empties the cache directory
ClearCache ==
    /\ cache # EmptyMap
    /\ cache' = EmptyMap
    /\ last' = Quiet
    /\ UNCHANGED <<now, nextH, osAlive, child, procs, timers, ctx, registry,
                   storeVars, batch>>

ResolveNext ==
    \/ \E source \in ResolveSources, outcome \in ResolveOutcomes : Resolve(source, outcome)
    \/ ClearCache

ResolveSpec == Init /\ [][ResolveNext]_vars

(***************************************************************************)
(* crypto.js getMasterKey with its cache (_masterKey, here ctx[i].key, 0   *)
(* when nothing is cached) and the key file as it can be found: absent     *)
(* (0), a well-formed key, or text that is not a key (MalformedKey).       *)
(***************************************************************************)
MalformedKey == -1
Keys == {1, 2, 3}

\* generateMasterKey: the new key, and the key file after the attempt to
\* write it (the key is used for the session when the write fails)
generateMasterKey(kf, fresh, writeOk) == [key |-> fresh, file |-> IF writeOk THEN fresh ELSE kf]

\* getMasterKey(): the key returned and the key file after the call
getMasterKeyCached(memo, kf, fresh, writeOk) ==
    IF memo # 0 THEN [key |-> memo, file |-> kf]
    ELSE IF kf # 0 /\ kf # MalformedKey THEN [key |-> kf, file |-> kf]
    ELSE generateMasterKey(kf, fresh, writeOk)

GetMasterKey(i, fresh, writeOk) ==
    /\ fresh # keyFile
    /\ LET r == getMasterKeyCached(ctx[i].key, keyFile, fresh, writeOk)
       IN  /\ keyFile' = r.file
           /\ UNCHANGED toolFiles
           /\ ctx' = [ctx EXCEPT ![i].key = r.key]
           /\ last' = Call("getMasterKey", NoError, <<i>>, r.key)
    /\ UNCHANGED <<now, nextH, osAlive, child, procs, timers, registry, cache,
                   tagFiles, activeTag, batch>>

\* the process of invocation i ends: its cache is gone
KeyProcessEnd(i) ==
    /\ ctx[i].key # 0
    /\ ctx' = [ctx EXCEPT ![i].key = 0]
    /\ last' = Quiet
    /\ UNCHANGED <<now, nextH, osAlive, child, procs, timers, registry, cache,
                   storeVars, batch>>

\* the key file is damaged (an edit, a truncated write, a disk error)
KeyFileDamaged ==
    /\ keyFile \in Keys
    /\ keyFile' = MalformedKey
    /\ UNCHANGED toolFiles
    /\ last' = Quiet
    /\ UNCHANGED <<now, supVars, tagFiles, activeTag, batch>>

\* the key file is removed
KeyFileRemoved ==
    /\ keyFile # 0
    /\ keyFile' = 0
    /\ UNCHANGED toolFiles
    /\ last' = Quiet
    /\ UNCHANGED <<now, supVars, tagFiles, activeTag, batch>>

KeyNext ==
    \/ \E i \in Invs, fresh \in Keys, writeOk \in BOOLEAN : GetMasterKey(i, fresh, writeOk)
    \/ \E i \in Invs : KeyProcessEnd(i)
    \/ KeyFileDamaged
    \/ KeyFileRemoved

KeySpec == Init /\ [][KeyNext]_vars

EncryptSensitive(data, password) ==
    /\ last' = IF encryptWalkThrows(data)
               THEN Call("encryptSensitiveData", GenericError, <<data, password>>, <<>>)
               ELSE Call("encryptSensitiveData", NoError, <<data, password>>,
                         encryptWalk(data, password))
    /\ UNCHANGED <<now, supVars, storeVars, batch>>

DecryptSensitiveData(data, password) ==
    last' = IF decryptWalkThrows(data, password)
            THEN Call("decryptSensitiveData", GenericError, <<data, password>>, <<>>)
            ELSE Call("decryptSensitiveData", NoError, <<data, password>>,
                      decryptWalk(data, password))

\* decryptSensitiveData of what the preceding encryptSensitiveData returned,
\* with the master key of that call or with another one
DecryptSensitive(password) ==
    /\ last.op = "encryptSensitiveData" /\ last.err = NoError
    /\ DecryptSensitiveData(last.ret, password)
    /\ UNCHANGED <<now, supVars, storeVars, batch>>

\* decryptSensitiveData of a structure read from a file
DecryptSensitiveStored(data, password) ==
    /\ DecryptSensitiveData(data, password)
    /\ UNCHANGED <<now, supVars, storeVars, batch>>

\* VALIDATION.MCP_SOURCE.PATTERNS, in their order
McpSourcePatterns(s) ==
    \/ StartsWith(s, PrefNpm) /\ Len(s) > Len(PrefNpm)
    \/ /\ StartsWith(s, PrefGithub)
       /\ \E k \in (Len(PrefGithub) + 2)..(Len(s) - 1) :
             /\ s[k] = "/"
             /\ \A i \in (Len(PrefGithub) + 1)..(k - 1) : s[i] \in WordDashChars
             /\ \A i \in (k + 1)..Len(s) : s[i] \in WordDashChars \cup {"."}
    \/ StartsWith(s, PrefHttps) /\ Len(s) > Len(PrefHttps)
    \/ StartsWith(s, PrefHttp) /\ Len(s) > Len(PrefHttp)
    \/ StartsWith(s, PrefGit \o PrefHttps) /\ Len(s) > Len(PrefGit \o PrefHttps)
    \/ s # <<>> /\ \A i \in DOMAIN s : s[i] \in AlnumChars \cup {"@", "/", ".", "_", "-"}

ValidatorsMcpSource(value) ==
    IF ValidatorsRequired(value) # NoError THEN ValidationError
    ELSE IF ~McpSourcePatterns(value) THEN ValidationError
    ELSE NoError

SrcGithubDot == <<"g","i","t","h","u","b",":","o","/","r",".","s">>
SrcSpace == <<"a"," ","b">>
StartSources == SourceInputs \cup {SrcGithubDot, SrcSpace}

\* the id startMCP makes at time t for the name that addCommand derives from
\* a source, and what Validators.processId says of it
ProcessIdOfSource(source, t) ==
    LET mcpName == parseSource(source).name
        processId == MakeId(mcpName, t)
    IN  /\ last' = Call("processId",
                        IF ValidatorsMcpSource(source) # NoError THEN ValidationError
                        ELSE ValidatorsProcessId(processId),
                        <<source, t>>, processId)
        /\ UNCHANGED <<now, supVars, storeVars, batch>>

\* errors.js ErrorHandler.withRetry. The operation is given by what each of
\* its calls does: "ok" (call k returns the value k), "retry" (it throws the
\* error k and shouldRetry says true) or "stop" (it throws the error k and
\* shouldRetry says false). 0 stands for undefined, the initial lastError.
RetriesDefault == 3
AttemptOutcomes == {"ok", "retry", "stop"}
Operations == [1..RetriesDefault -> AttemptOutcomes]

\* the loop from `attempt` on: the number of calls made, and what is
\* returned or thrown
RECURSIVE withRetryFrom(_, _, _, _)
withRetryFrom(operation, retries, attempt, lastError) ==
    IF attempt > retries
    THEN [calls |-> attempt - 1, threw |-> TRUE, value |-> lastError]
    ELSE IF operation[attempt] = "ok"
    THEN [calls |-> attempt, threw |-> FALSE, value |-> attempt]
    ELSE IF attempt = retries \/ operation[attempt] = "stop"
    THEN [calls |-> attempt, threw |-> TRUE, value |-> attempt]
    ELSE withRetryFrom(operation, retries, attempt + 1, attempt)

withRetry(operation, retries) == withRetryFrom(operation, retries, 1, 0)

WithRetry(operation, retries) ==
    /\ last' = Call("withRetry",
                    IF withRetry(operation, retries).threw THEN GenericError ELSE NoError,
                    <<operation, retries>>, withRetry(operation, retries))
    /\ UNCHANGED <<now, supVars, storeVars, batch>>

\* saveTagConfig of the object the preceding getTagConfig returned, in the
\* same invocation and so with the same master key: encryptSensitiveData of
\* what decryptSensitiveData gave. arg is what the file held and the key.
SaveTagAfterRead ==
    /\ last.op = "decryptSensitiveData" /\ last.err = NoError
    /\ last' = IF encryptWalkThrows(last.ret)
               THEN Call("saveTagAfterRead", GenericError, last.arg, <<>>)
               ELSE Call("saveTagAfterRead", NoError, last.arg,
                         encryptWalk(last.ret, last.arg[2]))
    /\ UNCHANGED <<now, supVars, storeVars, batch>>

FunNext ==
    \/ \E data \in JsonInputs, password \in Secrets : EncryptSensitive(data, password)
    \/ \E password \in Secrets : DecryptSensitive(password)
    \/ \E data \in StoredJson, password \in Secrets : DecryptSensitiveStored(data, password)
    \/ \E text \in Texts, password \in Secrets, salt \in Salts, iv \in Ivs :
          Encrypt(text, password, salt, iv)
    \/ \E password \in Secrets : DecryptFresh(password)
    \/ \E v \in LegacyValues, password \in Secrets : DecryptStored(v, password)
    \/ \E key \in KeyInputs : SensitiveKey(key)
    \/ \E source \in SourceInputs : ParseSource(source)
    \/ SaveTagAfterRead
    \/ \E operation \in Operations, retries \in 0..RetriesDefault : WithRetry(operation, retries)
    \/ \E source \in StartSources, t \in 1..MaxNow : ProcessIdOfSource(source, t)

FunSpec == Init /\ [][FunNext]_vars

(***************************************************************************)
(* Properties of the supervisor.                                           *)
(***************************************************************************)
LiveIds(reg) == {id \in DOMAIN reg : reg[id].pid \in osAlive}

\* C1: list() returns exactly the records of the registry whose pid is alive
\* when it is called, and the registry it leaves on disk holds exactly those
\* records, unchanged.
C1_ListReturnsLiveRecords ==
    [][last'.op = "list" =>
          /\ last'.listed = LiveIds(registry)
          /\ DOMAIN registry' = last'.listed
          /\ \A id \in last'.listed : registry'[id] = registry[id]]_vars

\* a list() that returned one record after it dropped the record of a process
\* which died without its exit event having been handled
C1_Witness ==
    /\ last.op = "list"
    /\ last.listed # {}
    /\ \E h \in DOMAIN child :
          /\ child[h].pid # 0 /\ child[h].pid \notin osAlive /\ ~child[h].done
          /\ child[h].id \notin last.listed
          /\ child[h].id \notin DOMAIN registry

\* C2 as stated: the record is persisted before the spawn, so whenever a child
\* of a start in progress has been spawned the registry has a record for its id.
C2_RecordBeforeSpawn ==
    \A i \in Invs :
        (ctx[i].stage = "persist" /\ child[ctx[i].h].pid # 0) => ctx[i].id \in DOMAIN registry

\* C2, amended: the child is spawned first; the record, with status `starting`
\* and the pid of the child, is written in the synchronous block that follows
\* the spawn, so it is in the registry when start returns the id.
C2_RecordWhenStartReturns ==
    [][\A i \in Invs :
          (ctx[i].stage = "persist" /\ ctx'[i].stage = "idle" /\ child[ctx[i].h].pid # 0) =>
              /\ last'.op = "start" /\ last'.id = ctx[i].id
              /\ ctx[i].id \in DOMAIN registry'
              /\ registry'[ctx[i].id].status = "starting"
              /\ registry'[ctx[i].id].pid = child[ctx[i].h].pid]_vars

\* a start that returned an id whose record, status `starting`, is in the
\* registry and carries the pid of a live process
C2_Witness ==
    /\ last.op = "start" /\ last.err = NoError
    /\ last.id \in DOMAIN registry
    /\ registry[last.id].status = "starting"
    /\ registry[last.id].pid \in osAlive

\* C3 as stated: stop(id) of a tracked process delivers SIGTERM at once, and
\* when the delay has elapsed SIGKILL is sent if and only if the process has
\* not exited by then.
C3_ForceKillIffStillAlive ==
    [][/\ (last'.op = "stop" /\ last'.err = NoError) =>
              last'.term = {procs[Main][last'.id]} \cap osAlive
       /\ last'.op = "timer" =>
              (last'.kill = {last'.pid} <=> last'.pid \in osAlive)]_vars

\* C4 as stated: a list() that follows the elapse of the delay armed by
\* stop(id) does not contain id.
C4_StoppedIdNotListed ==
    [][(last.op = "timer" /\ last'.op = "list") => last.id \notin last'.listed]_vars

\* C5 as stated: stopAll() signals the process of every live record of the
\* registry, and returns the number of live records it stopped.
C5_StopAllStopsEveryLiveRecord ==
    [][last'.op = "stopAll" =>
          /\ \A id \in LiveIds(registry) : registry[id].pid \in last'.term
          /\ last'.count = Cardinality(LiveIds(registry))]_vars

\* C6 as stated: the id a start returns is new: it is not the id of a record
\* already in the registry, nor the key of a process already tracked.
C6_StartGetsOwnId ==
    [][\A i \in Invs :
          (ctx[i].stage = "persist" /\ ctx'[i].stage = "idle") =>
              /\ ctx[i].id \notin DOMAIN registry
              /\ ctx[i].id \notin DOMAIN procs[i]]_vars

(***************************************************************************)
(* Properties of startTagMCPs.                                             *)
(***************************************************************************)
Names(results) == [k \in DOMAIN results |-> results[k].name]

\* C7: startTagMCPs attempts the MCPs of the tag one after the other, each
\* exactly once; the attempt of an MCP whose source does not resolve adds one
\* `failed` result, any other attempt adds one `started` result, and the loop
\* goes on with the next MCP in both cases: the summary has one result for
\* every MCP of the tag.
C7_BatchAttemptsEachOnce ==
    /\ [](batch.inv # 0 => Names(batch.results) \o batch.todo = batch.names)
    /\ [][(batch.inv # 0 /\ batch'.inv # 0 /\ batch'.results # batch.results) =>
             /\ batch'.results =
                    Append(batch.results,
                           [name |-> Head(batch.todo),
                            status |-> IF last'.op = "start" /\ last'.err # NoError
                                       THEN "failed" ELSE "started"])
             /\ batch'.todo = Tail(batch.todo)
             /\ batch'.names = batch.names]_vars
    /\ [][(batch.inv # 0 /\ batch'.inv = 0) =>
             /\ last'.op = "startTag"
             /\ last'.results = batch.results
             /\ Names(last'.results) = batch.names]_vars

\* the summary of a tag with 3 MCPs whose first source did not resolve:
\* 1 failed, then 2 started
C7_Witness ==
    /\ last.op = "startTag"
    /\ Len(last.results) = 3
    /\ last.results[1].status = "failed"
    /\ last.results[2].status = "started"
    /\ last.results[3].status = "started"

(***************************************************************************)
(* Properties of the tag store and the tag commands.                       *)
(***************************************************************************)
\* C8 as stated: a delete command or a deleteTag that names the active tag,
\* whose file exists, fails with a TagError and leaves the tag files as they are.
C8_ActiveTagNotDeleted ==
    [][(last'.op \in {"delete", "deleteTag"} /\ last'.id = activeTag
            /\ activeTag \in DOMAIN tagFiles) =>
          (last'.err = TagError /\ tagFiles' = tagFiles)]_vars

\* C9: a get that follows the successful creation of a tag with a valid name
\* returns the tag, and its mcps map is the map the creation was given (the
\* empty map for createCommand).
C9_CreateThenGet ==
    [][(last.op = "create" /\ last.err = NoError /\ ValidatorsTagName(last.id) = NoError
            /\ last'.op = "get" /\ last'.id = last.id) =>
          (last'.err = NoError /\ last'.count = 1 /\ last'.mcps = last.mcps)]_vars

\* a get that returned a tag with a valid name and the three MCPs of a preset
C9_Witness ==
    /\ last.op = "get" /\ last.err = NoError /\ last.count = 1
    /\ ValidatorsTagName(last.id) = NoError
    /\ last.id \in DOMAIN tagFiles
    /\ DOMAIN last.mcps = {McpWhatsapp, McpFilesystem, McpMemory}
    /\ \A n \in DOMAIN last.mcps : last.mcps[n] = MCP_PRESETS[n]

\* the commands that validate a tag name or a process id, given one that is
\* not valid
BadInput(o) ==
    \/ o.op \in {"create", "use", "delete"} /\ ValidatorsTagName(o.id) # NoError
    \/ o.op = "kill" /\ ValidatorsProcessId(o.id) # NoError

\* C10 as stated: a command whose input fails validation raises a
\* ValidationError and has not touched the tag files, the active-tag pointer
\* or the registry.
C10_ValidationBeforeMutation ==
    [][BadInput(last') =>
          (last'.err = ValidationError /\ UNCHANGED <<tagFiles, activeTag, registry>>)]_vars

\* C11 as stated: every tag file has a name that passes the validation of tag
\* names: allowed pattern, 1 to 50 characters, not a reserved word.
C11_PersistedTagNamesValid ==
    \A tagName \in DOMAIN tagFiles : ValidatorsTagName(tagName) = NoError

\* C12 as stated: the child spawned for an MCP of a tag gets the ambient
\* environment overlaid with the environment map of the tag.
C12_ChildSeesTagEnvironment ==
    \A i \in Invs :
        (batch.inv = i /\ ctx[i].stage = "persist") =>
            child[ctx[i].h].env = MergeEnv(AmbientEnv, batch.environment)

\* C13 as stated: stop(id) or kill(id) with an id the invocation does not
\* track raises a ProcessError, delivers no signal, arms no timer and leaves
\* the registry and the processes as they are.
C13_UnknownIdIsProcessError ==
    [][(last'.op \in {"stop", "kill"} /\ last'.id \notin DOMAIN procs[Main]) =>
          /\ last'.err = ProcessError
          /\ last'.term = {} /\ last'.kill = {}
          /\ timers' = timers /\ registry' = registry /\ osAlive' = osAlive]_vars

(***************************************************************************)
(* Properties of the library functions.                                    *)
(***************************************************************************)
\* C14: decrypt(encrypt(v, k), k) = v for every non-empty string v and every
\* secret k: a call of decrypt on what encrypt made of v under k, with k,
\* throws nothing and returns v.
C14_DecryptInvertsEncrypt ==
    \A v \in Texts \ {<<>>}, k \in Secrets, salt \in Salts, iv \in Ivs :
        (last.op = "decrypt" /\ last.arg = <<encrypt(v, k, salt, iv), k>>) =>
            last.err = NoError /\ last.ret = v
C14_Witness ==
    /\ last.op = "decrypt" /\ last.err = NoError
    /\ last.arg = <<encrypt(<<"a","b">>, 2, 1, 2), 2>>
    /\ last.ret = <<"a","b">>

\* C15: decrypting an encrypted value, with or without an authTag, with a
\* secret other than the one it was encrypted with fails with a CryptoError
\* and never returns a string.
C15_WrongSecretIsCryptoError ==
    (last.op = "decrypt" /\ last.arg[2] # last.arg[1].encrypted.key[1]) =>
        last.err = CryptoError

\* C16: isSensitiveKey is true exactly when, ignoring case, the key ends in
\* key, token, secret or password, contains auth, credential, session or
\* cookie, or starts with api; apiKey, password, secret and token are
\* sensitive and normalField is not.
C16_SensitiveExactlyWhenListed ==
    last.op = "isSensitiveKey" =>
        LET key == last.arg[1]
            k == toLowerCase(key)
            listed ==
                \/ \E suffix \in {<<"k","e","y">>, <<"t","o","k","e","n">>,
                                   <<"s","e","c","r","e","t">>,
                                   <<"p","a","s","s","w","o","r","d">>} : EndsWith(k, suffix)
                \/ \E part \in {<<"a","u","t","h">>,
                                 <<"c","r","e","d","e","n","t","i","a","l">>,
                                 <<"s","e","s","s","i","o","n">>,
                                 <<"c","o","o","k","i","e">>} : Contains(k, part)
                \/ StartsWith(k, <<"a","p","i">>)
        IN  /\ last.ret = listed
            /\ key \in {<<"a","p","i","K","e","y">>, <<"p","a","s","s","w","o","r","d">>,
                         <<"s","e","c","r","e","t">>, <<"t","o","k","e","n">>} => last.ret
            /\ key = <<"n","o","r","m","a","l","F","i","e","l","d">> => ~last.ret

\* C17: parseSource tries the prefixes in the order npm:, github:, http(s)://,
\* git+ and takes anything else for a registry package; "npm:foo" is the
\* package foo, "github:o/r" the repository r of owner o, "https://x/y/z" a
\* remote endpoint named z and "git+https://x/y.git" a git URL named y.
C17_ParseSourcePrecedence ==
    last.op = "parseSource" =>
        LET source == last.arg[1]
            r == last.ret
        IN  /\ r.type = IF StartsWith(source, PrefNpm) THEN "npm"
                        ELSE IF StartsWith(source, PrefGithub) THEN "github"
                        ELSE IF StartsWith(source, PrefHttp) \/ StartsWith(source, PrefHttps)
                             THEN "remote"
                        ELSE IF StartsWith(source, PrefGit) THEN "git"
                        ELSE "npm"
            /\ source = SrcNpmFoo => r.type = "npm" /\ r.name = <<"f","o","o">>
            /\ source = SrcGithubOR =>
                  r.type = "github" /\ r.owner = <<"o">> /\ r.name = <<"r">>
            /\ source = SrcHttpsXYZ => r.type = "remote" /\ r.name = <<"z">>
            /\ source = SrcGitXY => r.type = "git" /\ r.name = <<"y">>
            /\ source = SrcBare => r.target = source
C17_Witness ==
    /\ last.op = "parseSource" /\ last.arg = <<SrcGitXY>>
    /\ last.ret.type = "git" /\ last.ret.name = <<"y">>

(***************************************************************************)
(* Properties of concurrent writers.                                       *)
(***************************************************************************)
\* C18: writers of a tag file do not coordinate: a save leaves in the file
\* the whole document of the invocation that made it, whatever another
\* invocation wrote there since this one took its copy, so an update of
\* the other can be lost.
C18_LastWriterWins ==
    [][last'.op = "save" =>
          /\ tagFiles'[last'.id].mcps = EncryptMap(last'.mcps, keyFile')
          /\ last'.lost = (IF last'.id \in DOMAIN tagFiles
                           THEN DOMAIN tagFiles[last'.id].mcps ELSE {})
                          \ DOMAIN last'.mcps]_vars
C18_Witness ==
    /\ last.op = "save" /\ last.id = TagDefault
    /\ last.lost = {McpWhatsapp}
    /\ DOMAIN tagFiles[TagDefault].mcps = {McpFilesystem}

(***************************************************************************)
(* Properties of the end of an invocation and of the exit of a child.      *)
(***************************************************************************)
\* C19: a process spawned by start keeps running after the invocation that
\* supervises it ends: the end of the invocation sends no signal to the
\* processes it started and none of them stops running.
C19_ChildrenOutliveInvocation ==
    [][last'.op = "exit" => (osAlive' = osAlive /\ last'.term = {})]_vars

\* C20: when a supervised process exits with code 0 or by the expected
\* signal, the status of its record becomes `stopped`; when it exits with
\* another code, or its spawn failed, the status becomes `error`.
C20_StatusOnExit ==
    [][/\ last'.op = "exited" =>
             /\ last'.id \in DOMAIN registry'
             /\ registry'[last'.id].status =
                   (IF last'.arg[1] = "code 1" THEN "error" ELSE "stopped")
       /\ (ctx[Main].stage = "persist" /\ child[ctx[Main].h].pid = 0 /\ last'.op = "start") =>
             /\ last'.id \in DOMAIN registry'
             /\ registry'[last'.id].status = "error"]_vars

(***************************************************************************)
(* Properties of the status of a record.                                   *)
(***************************************************************************)
\* C21: once the spawn of a process has been confirmed its record has status
\* `running`: every record list() reports is the record of a process whose
\* 'spawn' event was handled, and none of them has status `starting`.
C21_ListedRecordsAreRunning ==
    [][last'.op = "list" =>
          \A id \in last'.listed : registry'[id].status = "running"]_vars

(***************************************************************************)
(* Properties of saveTagConfig.                                            *)
(***************************************************************************)
\* C22: after every save of a tag the `updated` member of the tag file is the
\* time of that save, also when the object that is saved carries an older
\* `updated` value.
C22_UpdatedIsTimeOfSave ==
    [][(last'.op = "save" /\ last'.err = NoError) =>
          tagFiles'[last'.id].updated = now']_vars

\* C23: a save merges the supplied members over the tag file that exists: a
\* member that is not supplied keeps the value it has in the file.
C23_SaveKeepsUnsuppliedMembers ==
    [][(last'.op = "save" /\ last'.arg # <<>> /\ last'.id \in DOMAIN tagFiles) =>
          \A f \in {"description", "created", "mcps", "environment"} \ DOMAIN last'.arg[1] :
              tagFiles'[last'.id][f] = tagFiles[last'.id][f]]_vars

(***************************************************************************)
(* Properties of encryptSensitiveData and decryptSensitiveData.            *)
(***************************************************************************)
\* the relation C24 states between a structure and what is written for it: a
\* string member of an object under a sensitive name has become an encrypted
\* value of that string, at any depth, and everything else is as it was
RECURSIVE Protects(_, _, _)
Protects(data, out, password) ==
    IF data.t = "obj"
    THEN /\ out.t = "obj" /\ DOMAIN out.v = DOMAIN data.v
         /\ \A key \in DOMAIN data.v :
               LET a == data.v[key]
                   b == out.v[key]
               IN  IF a.t = "str" /\ isSensitiveKey(key)
                   THEN b.t = "enc" /\ decrypt(b.v, password) = {DecryptDone(a.v)}
                   ELSE IF a.t = "str" THEN b = a
                   ELSE Protects(a, b, password)
    ELSE IF data.t = "arr"
    THEN /\ out.t = "arr" /\ Len(out.v) = Len(data.v)
         /\ \A n \in DOMAIN data.v :
               IF data.v[n].t = "str" THEN out.v[n] = data.v[n]
               ELSE Protects(data.v[n], out.v[n], password)
    ELSE out = data

\* C24: encryptSensitiveData(obj) returns the structure in which every string
\* under a sensitive member name, at any nesting depth, is an encrypted value
\* and every other value is unchanged.
C24_SensitiveLeavesEncrypted ==
    last.op = "encryptSensitiveData" =>
        /\ last.err = NoError
        /\ Protects(last.arg[1], last.ret, last.arg[2])

\* what C25 states decryptSensitiveData returns: each encrypted value is
\* replaced by its text, or by the placeholder when its decryption fails
RECURSIVE PlaceholderWalk(_, _)
PlaceholderWalk(data, password) ==
    IF data.t = "enc"
    THEN IF JDecryptOk(data, password) THEN JStr(data.v.encrypted.text) ELSE JStr(Placeholder)
    ELSE IF data.t = "obj"
    THEN JObj([key \in DOMAIN data.v |-> PlaceholderWalk(data.v[key], password)])
    ELSE data

\* C25: decryptSensitiveData never aborts the walk: a member whose decryption
\* fails becomes the placeholder and every other member is decrypted or
\* passed through as it would be without the failure.
C25_FailureGivesPlaceholder ==
    last.op = "decryptSensitiveData" =>
        /\ last.err = NoError
        /\ last.ret = PlaceholderWalk(last.arg[1], last.arg[2])

(***************************************************************************)
(* Properties of the resolver.                                             *)
(***************************************************************************)
\* a resolve of a repository that scanned the working copy of the cache
ResolvedDir == getCacheDir(parseSource(last'.arg[1]).name)
ResolvedRepo ==
    /\ last'.op = "resolve"
    /\ parseSource(last'.arg[1]).type \in {"github", "git"}
    /\ ResolvedDir \in DOMAIN cache'
    /\ cache'[ResolvedDir].ok
\* the first of the conventional file names that is in a set of files
FirstPlain(files) ==
    EntryFiles[CHOOSE n \in 2..Len(EntryFiles) :
                  EntryFiles[n] \in files /\ \A k \in 2..(n - 1) : EntryFiles[k] \notin files]

\* C26: the scan takes the first candidate that matches, in the order bin
\* member of the manifest, main member of the manifest, index.js, main.py,
\* server.py, mcp.py, each run by its interpreter; a manifest with neither
\* member is no match and the scan goes on; an error is raised only when
\* there is no candidate at all.
C26_ScanPrecedence ==
    [][ResolvedRepo =>
          LET scanned == cache'[ResolvedDir]
              manifest == "package.json" \in scanned.files
              plain == scanned.files \cap {"index.js", "main.py", "server.py", "mcp.py"}
          IN  IF manifest /\ scanned.pkg \in {"bin", "main"}
              THEN last'.err = NoError /\ last'.ret.cmd = "node"
              ELSE IF plain # {}
              THEN /\ last'.err = NoError
                   /\ last'.ret.arg = FirstPlain(plain)
                   /\ last'.ret.cmd = IF FirstPlain(plain) = "index.js" THEN "node"
                                      ELSE "python"
              ELSE last'.err = ProcessError]_vars

\* C27: when the manifest declares several binaries the resolver runs the
\* one whose key is first in lexicographic order, whatever the order of the
\* keys in the manifest.
C27_FirstBinaryByKey ==
    [][(ResolvedRepo /\ "package.json" \in cache'[ResolvedDir].files
                     /\ cache'[ResolvedDir].pkg = "bin") =>
          LET bin == cache'[ResolvedDir].bin
              rank(m) == CHOOSE n \in DOMAIN LowerSeq : LowerSeq[n] = m[1][1]
              least == CHOOSE m \in Range(bin) : \A o \in Range(bin) : rank(m) <= rank(o)
          IN  last'.err = NoError /\ last'.ret.arg = least[2]]_vars

\* C28: a clone that fails leaves no cache directory for the source, so the
\* next resolve of the source clones again.
C28_FailedCloneLeavesNoDirectory ==
    [][(/\ last'.op = "resolve"
        /\ parseSource(last'.arg[1]).type \in {"github", "git"}
        /\ ResolvedDir \notin DOMAIN cache
        /\ ~last'.arg[2].ok) =>
          ResolvedDir \notin DOMAIN cache']_vars

(***************************************************************************)
(* Properties of the master key.                                           *)
(***************************************************************************)
\* C29: once a key file has been written, getMasterKey returns the key of
\* the file and does not write the file again; a key file that is not a
\* well-formed key is reported as a CryptoError and is not replaced; within
\* one process the key returned never changes.
C29_MasterKeyGeneratedOnce ==
    [][last'.op = "getMasterKey" =>
          LET i == last'.arg[1]
          IN  /\ keyFile # 0 => keyFile' = keyFile
              /\ keyFile \in Keys => last'.ret = keyFile
              /\ keyFile = MalformedKey => last'.err = CryptoError
              /\ ctx[i].key # 0 => last'.ret = ctx[i].key]_vars

\* C30: an export that succeeds leaves in the tool's file every top-level
\* member it had, and every member of mcpServers that the tag does not
\* define, with the value it had
C30_ExportKeepsForeignEntries ==
    [][last'.op = "export" /\ last'.err = NoError /\ last'.arg[1] \in DOMAIN toolFiles =>
          LET toolName == last'.arg[1]
              before == toolFiles[toolName]
              after == toolFiles'[toolName]
              defined == DOMAIN tagFiles[last'.id].mcps
          IN  /\ \A k \in DOMAIN before.other :
                    k \in DOMAIN after.other /\ after.other[k] = before.other[k]
              /\ \A name \in DOMAIN before.mcpServers \ defined :
                    /\ name \in DOMAIN after.mcpServers
                    /\ after.mcpServers[name] = before.mcpServers[name]]_vars

\* C31: an operation that reads an active-tag file whose text is malformed
\* ends with a ConfigError
C31_MalformedPointerIsConfigError ==
    [][last'.op = "startTag" /\ last'.id = <<>> /\ activeTag = MalformedPointer =>
          last'.err = ConfigError]_vars

\* C32: stop or kill of an id that the list reports, with a process that is
\* alive, ends without error and delivers SIGTERM to the recorded pid
C32_ListedIdsCanBeStopped ==
    [][(/\ last'.op \in {"stop", "kill"}
        /\ last'.id \in DOMAIN getRunningProcesses(registry)
        /\ registry[last'.id].pid \in osAlive) =>
          /\ last'.err = NoError
          /\ last'.term = {registry[last'.id].pid}]_vars

\* C33: every live process that a start has returned the id of has its record
\* in the persisted registry
C33_NoRecordLost ==
    \A i \in Invs : \A id \in DOMAIN procs[i] :
        child[procs[i][id]].pid \in osAlive => id \in DOMAIN registry

C36_WorkingCopyIsOfTheSource ==
    [][(ResolvedRepo /\ last'.err = NoError) =>
          cache'[ResolvedDir].origin = parseSource(last'.arg[1]).target]_vars

\* C37: the id made from the name derived from a source that the source
\* validation accepts passes the process-id validation
C37_GeneratedIdsAreValid ==
    (last.op = "processId" /\ ValidatorsMcpSource(last.arg[1]) = NoError) =>
        ValidatorsProcessId(last.ret) = NoError

\* C38: an entry `started` is put into the summary only for an MCP whose OS
\* process was spawned
C38_StartedMeansSpawned ==
    [][(/\ batch.inv # 0 /\ batch'.inv # 0
        /\ Len(batch'.results) = Len(batch.results) + 1
        /\ batch'.results[Len(batch'.results)].status = "started") =>
          /\ ctx[batch.inv].h \in DOMAIN child
          /\ child[ctx[batch.inv].h].pid # 0]_vars

\* C39: withRetry calls the operation at least once and at most `retries`
\* times; it returns the value of the first call that succeeds or throws the
\* error of the last call it made; every call before the last one failed
\* with an error that shouldRetry accepted
C39_RetryBounded ==
    last.op = "withRetry" =>
        LET operation == last.arg[1]
            retries == last.arg[2]
            r == last.ret
        IN  /\ r.calls >= 1 /\ r.calls <= retries
            /\ r.value = r.calls
            /\ r.threw <=> operation[r.calls] # "ok"
            /\ \A k \in 1..(r.calls - 1) : operation[k] = "retry"

====
